---- MODULE Spec2Model ----
(***************************************************************************)
(* A model of the OData metadata viewer: the extraction of the entity /    *)
(* relationship model from a metadata document (parse_odata_file in        *)
(* odata_to_mermaid.py) and the rendering of the model as Mermaid ER       *)
(* diagram text (generate_mermaid_diagram).                                *)
(*                                                                         *)
(* Python strings are TLA+ strings, handled character by character with    *)
(* Len, SubSeq and \o.  A dict is a sequence of <<key, value>> pairs in    *)
(* insertion order with unique keys.                                       *)
(***************************************************************************)
EXTENDS Integers, Sequences, FiniteSets, TLC

VARIABLES
    pc,             \* position of the program
    doc,            \* the parsed XML tree: nodes in document order
    metadata,       \* dict returned by parse_odata_metadata
    schema_elements,
    all_entity_type_elements,
    all_assoc_elements,
    assoc_map,
    cursor,         \* index of the next element of the running loop
    entities,       \* dict name -> property tuples (parse_odata_file)
    relationships,  \* list of (from, to, from_mult, to_mult)
    diagram,        \* text returned by generate_mermaid_diagram
    entity_filter,  \* main: the entity names selected for the diagram
    include_related,        \* main: the "include related" checkbox
    filtered_entities,      \* main: dict of the entities kept by the filter
    filtered_relationships  \* main: list of the relationships kept

\* the variables of the diagram filter of main
filter_vars == <<entity_filter, include_related, filtered_entities,
                 filtered_relationships>>

vars == <<pc, doc, metadata, schema_elements, all_entity_type_elements,
          all_assoc_elements, assoc_map, cursor, entities, relationships,
          diagram, filter_vars>>

-----------------------------------------------------------------------------
(* Python str operations *)

Char(s, i) == SubSeq(s, i, i)

\* s[i:i+len(pat)] == pat
MatchAt(s, pat, i) == /\ i + Len(pat) - 1 <= Len(s)
                      /\ SubSeq(s, i, i + Len(pat) - 1) = pat

\* pat in s
Contains(s, pat) == \E i \in 1..(Len(s) + 1) : MatchAt(s, pat, i)

\* s.endswith(suffix)
EndsWith(s, suffix) ==
    /\ Len(suffix) <= Len(s)
    /\ SubSeq(s, Len(s) - Len(suffix) + 1, Len(s)) = suffix

\* s.replace(old, new), old not empty: leftmost non-overlapping occurrences
RECURSIVE ReplaceFrom(_, _, _, _)
ReplaceFrom(s, old, new, i) ==
    IF i > Len(s) THEN ""
    ELSE IF MatchAt(s, old, i)
         THEN new \o ReplaceFrom(s, old, new, i + Len(old))
         ELSE Char(s, i) \o ReplaceFrom(s, old, new, i + 1)

Replace(s, old, new) == ReplaceFrom(s, old, new, 1)

\* s.split(sep), sep a single character: the pieces between the occurrences
\* of sep
Split(s, sep) ==
    LET cuts == {i \in 1..Len(s) : Char(s, i) = sep}
        Cut(k) == CHOOSE c \in cuts : Cardinality({b \in cuts : b < c}) = k - 1
        First(k) == IF k = 1 THEN 1 ELSE Cut(k - 1) + 1
        Last(k) == IF k = Cardinality(cuts) + 1 THEN Len(s) ELSE Cut(k) - 1
    IN  [k \in 1..(Cardinality(cuts) + 1) |-> SubSeq(s, First(k), Last(k))]

\* s.split(sep)[-1]
SplitLast(s, sep) == LET parts == Split(s, sep) IN parts[Len(parts)]

\* sep.join(lines)
RECURSIVE Join(_, _)
Join(lines, sep) ==
    IF Len(lines) = 0 THEN ""
    ELSE IF Len(lines) = 1 THEN lines[1]
    ELSE lines[1] \o sep \o Join(Tail(lines), sep)

-----------------------------------------------------------------------------
(* Python dict operations: a dict is a sequence of <<key, value>> pairs *)

DictKeys(d) == {d[i][1] : i \in 1..Len(d)}

DictGet(d, k) == d[CHOOSE i \in 1..Len(d) : d[i][1] = k][2]

\* d[k] = v: a new key goes last, an old key keeps its place
DictSet(d, k, v) ==
    IF k \in DictKeys(d)
    THEN [i \in 1..Len(d) |-> IF d[i][1] = k THEN <<k, v>> ELSE d[i]]
    ELSE Append(d, <<k, v>>)

\* the orders in which a for loop may go through the set S: a set of strings
\* is iterated in hash order, which differs from one process to the next
Orderings(S) ==
    {q \in [1..Cardinality(S) -> S] :
        \A i, j \in 1..Cardinality(S) : i # j => q[i] # q[j]}

-----------------------------------------------------------------------------
(* generate_mermaid_diagram *)

\* the type_map dict, in insertion order
type_map == <<
    <<"Edm.String", "String">>,
    <<"Edm.Int32", "Int">>,
    <<"Edm.Int64", "Int64">>,
    <<"Edm.Boolean", "Boolean">>,
    <<"Edm.DateTime", "DateTime">>,
    <<"Edm.DateTimeOffset", "DateTime">>,
    <<"Edm.Time", "Time">>,
    <<"Edm.Decimal", "Decimal">>,
    <<"Edm.Double", "Float">>,
    <<"Edm.Single", "Float">>,
    <<"Edm.Guid", "String">>,
    <<"Edm.Binary", "Binary">> >>

\* entity_name.replace("-", "_").replace(" ", "_")
SafeEntityName(entity_name) ==
    Replace(Replace(entity_name, "-", "_"), " ", "_")

\* prop_name.split(' ')[0] if ' ' in prop_name else prop_name
BasePropName(prop_name) ==
    IF Contains(prop_name, " ") THEN Split(prop_name, " ")[1] ELSE prop_name

\* f"{base_prop_name}_{prop_type}"
PropKey(prop_name, prop_type) == BasePropName(prop_name) \o "_" \o prop_type

\* the for loop over type_map.items(): the first key whose leaf is a suffix
RECURSIVE SuffixLookup(_, _)
SuffixLookup(prop_type, i) ==
    IF i > Len(type_map) THEN "String"
    ELSE IF EndsWith(prop_type, SplitLast(type_map[i][1], "."))
         THEN type_map[i][2]
         ELSE SuffixLookup(prop_type, i + 1)

\* faulty variant of SafePropType: no suffix lookup for an unmapped type
SafePropTypeExactOnly(prop_type) ==
    IF prop_type \in DictKeys(type_map)
    THEN DictGet(type_map, prop_type)
    ELSE "String"

SafePropType(prop_type) ==
    IF prop_type \in DictKeys(type_map)
    THEN DictGet(type_map, prop_type)
    ELSE SuffixLookup(prop_type, 1)

SafePropName(prop_name) ==
    LET safe_prop_name ==
            Replace(Replace(Replace(Replace(prop_name,
                "-", "_"), " ", "_"), "(", "_"), ")", "_")
    IN  IF Contains(prop_name, "(PK)")
        THEN Replace(safe_prop_name, "_PK_", "") \o " PK"
        ELSE safe_prop_name

PropertyLine(prop_name, prop_type) ==
    "        " \o SafePropType(prop_type) \o " " \o SafePropName(prop_name)

\* faulty variant of SkipProperty: no property is ever skipped
SkipPropertyNever(prop_key, added_props) == FALSE

\* has the loop already added this property's key to added_props?
SkipProperty(prop_key, added_props) == prop_key \in added_props

\* the loop over properties, from element j on, with added_props so far
RECURSIVE PropertyLines(_, _, _)
PropertyLines(properties, j, added_props) ==
    IF j > Len(properties) THEN <<>>
    ELSE LET prop_name == properties[j][1]
             prop_type == properties[j][2]
             prop_key  == PropKey(prop_name, prop_type)
         IN  IF SkipProperty(prop_key, added_props)
             THEN PropertyLines(properties, j + 1, added_props)
             ELSE <<PropertyLine(prop_name, prop_type)>>
                  \o PropertyLines(properties, j + 1,
                                   added_props \cup {prop_key})

EntityHeaderLine(entity_name) == "    " \o SafeEntityName(entity_name) \o " {"

EntityBlock(entity_name, properties) ==
    <<EntityHeaderLine(entity_name)>>
    \o PropertyLines(properties, 1, {})
    \o <<"    }">>

RECURSIVE EntityBlocks(_, _)
EntityBlocks(ents, i) ==
    IF i > Len(ents) THEN <<>>
    ELSE EntityBlock(ents[i][1], ents[i][2]) \o EntityBlocks(ents, i + 1)

\* faulty variant of RelSymbol: "0..*" is not taken as many
RelSymbolStarOnly(from_mult, to_mult) ==
    IF from_mult = "1" /\ to_mult = "1" THEN "||--||"
    ELSE IF from_mult = "1" /\ to_mult = "*" THEN "||--|{"
    ELSE IF from_mult = "*" /\ to_mult = "1" THEN "}|--||"
    ELSE "}|--|{"

\* variant of RelSymbol: "0..1" is read as "1"
RelSymbolOptionalAsOne(from_mult, to_mult) ==
    IF from_mult \in {"1", "0..1"} /\ to_mult \in {"1", "0..1"} THEN "||--||"
    ELSE IF from_mult \in {"1", "0..1"} /\ to_mult \in {"*", "0..*"}
    THEN "||--|{"
    ELSE IF from_mult \in {"*", "0..*"} /\ to_mult \in {"1", "0..1"}
    THEN "}|--||"
    ELSE "}|--|{"

RelSymbol(from_mult, to_mult) ==
    IF from_mult = "1" /\ to_mult = "1" THEN "||--||"
    ELSE IF from_mult = "1" /\ to_mult \in {"*", "0..*"} THEN "||--|{"
    ELSE IF from_mult \in {"*", "0..*"} /\ to_mult = "1" THEN "}|--||"
    ELSE "}|--|{"

RelationshipLine(rel) ==
    "    " \o SafeEntityName(rel[1]) \o " " \o RelSymbol(rel[3], rel[4])
    \o " " \o SafeEntityName(rel[2]) \o " : relates"

RelationshipLines(rels) == [k \in 1..Len(rels) |-> RelationshipLine(rels[k])]

\* faulty variant of MermaidLines: the relationship loop runs first
MermaidLinesRelationshipsFirst(ents, rels) ==
    <<"erDiagram">> \o RelationshipLines(rels) \o EntityBlocks(ents, 1)

MermaidLines(ents, rels) ==
    <<"erDiagram">> \o EntityBlocks(ents, 1) \o RelationshipLines(rels)

generate_mermaid_diagram(ents, rels) == Join(MermaidLines(ents, rels), "\n")

\* faulty variant of RenderOutcomes: the entity blocks come in any order, as
\* they would if the loop went through a set of the entity names
RenderOutcomesAnyOrder(ents, rels) ==
    {generate_mermaid_diagram([i \in 1..Len(ents) |-> ents[order[i]]], rels) :
        order \in Orderings(1..Len(ents))}

\* the texts a call may return: entities.items(), the property lists and
\* relationships are gone through in their own order, and added_props, the
\* only set, is never iterated, so there is one
RenderOutcomes(ents, rels) == {generate_mermaid_diagram(ents, rels)}

-----------------------------------------------------------------------------
(* The XML tree, as xml.etree.ElementTree holds it.  doc is the sequence   *)
(* of the elements in document order; doc[1] is the root.  An element is   *)
(* [tag, attrs, parent]: tag is "{uri}local", or "local" when the element  *)
(* is in no namespace; attrs maps attribute names to strings; parent is    *)
(* the index of the parent, 0 for the root.                                *)

\* the namespace URIs of the ns dict
ns_edmx == "http://schemas.microsoft.com/ado/2007/06/edmx"
ns_edm == "http://schemas.microsoft.com/ado/2009/11/edm"
ns_edm2008 == "http://schemas.microsoft.com/ado/2008/09/edm"

Tag(uri, local) == IF uri = "" THEN local ELSE "{" \o uri \o "}" \o local

HasAttr(node, a) == a \in DOMAIN node.attrs

\* node.get(a, default)
Get(node, a, default) == IF HasAttr(node, a) THEN node.attrs[a] ELSE default

\* the truth value of node.get(a): the attribute is there and not empty
Truthy(node, a) == HasAttr(node, a) /\ node.attrs[a] # ""

Indices(d) == [i \in 1..Len(d) |-> i]

RECURSIVE IsDescendant(_, _, _)
IsDescendant(d, m, n) ==
    /\ d[m].parent # 0
    /\ \/ d[m].parent = n
       \/ IsDescendant(d, d[m].parent, n)

\* n.findall('./tag'): the children of n with that tag, in document order
FindChildren(d, n, tag) ==
    SelectSeq(Indices(d), LAMBDA m : d[m].parent = n /\ d[m].tag = tag)

\* n.findall('.//tag'): the descendants of n with that tag, in document order
FindDescendants(d, n, tag) ==
    SelectSeq(Indices(d), LAMBDA m : IsDescendant(d, m, n) /\ d[m].tag = tag)

\* the five lookups the code makes below an element for one local name:
\* './X', './/X', './/{2008 uri}X', './/edm:X', './/edm2008:X'
FindElements(d, n, local) ==
    FindChildren(d, n, local)
    \o FindDescendants(d, n, local)
    \o FindDescendants(d, n, Tag(ns_edm2008, local))
    \o FindDescendants(d, n, Tag(ns_edm, local))
    \o FindDescendants(d, n, Tag(ns_edm2008, local))

-----------------------------------------------------------------------------
(* parse_odata_file *)

\* the Schema lookup: four findall calls on the root, then the scan of all
\* descendants when they found nothing
FindSchemas(d) ==
    LET found == FindDescendants(d, 1, Tag(ns_edm, "Schema"))
                 \o FindDescendants(d, 1, Tag(ns_edm2008, "Schema"))
                 \o FindDescendants(d, 1, Tag(ns_edm2008, "Schema"))
                 \o FindDescendants(d, 1, "Schema")
    IN  IF found # <<>> THEN found
        ELSE SelectSeq(Indices(d),
                       LAMBDA m : IsDescendant(d, m, 1)
                                  /\ EndsWith(d[m].tag, "Schema"))

\* the loop over schema_elements, collecting the elements named local
RECURSIVE CollectFrom(_, _, _, _)
CollectFrom(d, schemas, i, local) ==
    IF i > Len(schemas) THEN <<>>
    ELSE FindElements(d, schemas[i], local)
         \o CollectFrom(d, schemas, i + 1, local)

\* key_props of an entity type: the names of the PropertyRefs of its first Key
KeyProps(d, entity_type) ==
    LET key_elements == FindElements(d, entity_type, "Key")
    IN  IF key_elements = <<>> THEN {}
        ELSE LET prop_ref_elements ==
                     FindElements(d, key_elements[1], "PropertyRef")
             IN  {d[prop_ref_elements[r]].attrs["Name"] :
                     r \in {q \in 1..Len(prop_ref_elements) :
                               Truthy(d[prop_ref_elements[q]], "Name")}}

\* the name a property is stored under: key properties get the marker
StoredPropName(prop_name, is_key) ==
    IF is_key THEN prop_name \o " (PK)" ELSE prop_name

\* the loop over prop_elements, from element j on
RECURSIVE PropertyTuples(_, _, _, _)
PropertyTuples(d, prop_elements, j, key_props) ==
    IF j > Len(prop_elements) THEN <<>>
    ELSE LET prop == d[prop_elements[j]]
             rest == PropertyTuples(d, prop_elements, j + 1, key_props)
         IN  IF ~Truthy(prop, "Name") THEN rest
             ELSE LET prop_name == prop.attrs["Name"]
                      prop_type ==
                          SplitLast(Get(prop, "Type", "Edm.String"), ".")
                      nullable == Get(prop, "Nullable", "true")
                  IN  <<<<StoredPropName(prop_name, prop_name \in key_props),
                          prop_type, nullable>>>> \o rest

\* faulty variant of KeepEntity: an entity without properties is stored too
KeepEntityAlways(properties) == TRUE

\* does the loop store the entity it has just read?
KeepEntity(properties) == properties # <<>>

\* variant of ExtractEntity: a name that is stored keeps its properties
ExtractEntityFirstWins(d, entity_type, ents) ==
    IF ~Truthy(d[entity_type], "Name") THEN ents
    ELSE LET name == d[entity_type].attrs["Name"]
             properties ==
                 PropertyTuples(d, FindElements(d, entity_type, "Property"),
                                1, KeyProps(d, entity_type))
         IN  IF properties # <<>> /\ name \notin DictKeys(ents)
             THEN DictSet(ents, name, properties)
             ELSE ents

\* one iteration of the loop over all_entity_type_elements
ExtractEntity(d, entity_type, ents) ==
    IF ~Truthy(d[entity_type], "Name") THEN ents
    ELSE LET name == d[entity_type].attrs["Name"]
             properties ==
                 PropertyTuples(d, FindElements(d, entity_type, "Property"),
                                1, KeyProps(d, entity_type))
         IN  IF KeepEntity(properties)
             THEN DictSet(ents, name, properties)
             ELSE ents

\* the loop building assoc_map; Element has no getparent, so only the plain
\* name is stored
RECURSIVE BuildAssocMapFrom(_, _, _, _)
BuildAssocMapFrom(d, assocs, i, map) ==
    IF i > Len(assocs) THEN map
    ELSE BuildAssocMapFrom(d, assocs, i + 1,
            IF Truthy(d[assocs[i]], "Name")
            THEN DictSet(map, d[assocs[i]].attrs["Name"], assocs[i])
            ELSE map)

\* from_entity_full.split('.')[-1] if from_entity_full else ''
LeafType(node) ==
    IF Truthy(node, "Type") THEN SplitLast(node.attrs["Type"], ".") ELSE ""

\* relationships.append(t) of the association pass
AppendAssociation(rels, t) == Append(rels, t)

\* faulty variant of EndpointsExist: the names are not looked up in entities
EndpointsExistUnchecked(from_entity, to_entity, ents) ==
    from_entity # "" /\ to_entity # ""

\* may a relationship between these two names be stored?
EndpointsExist(from_entity, to_entity, ents) ==
    /\ from_entity # "" /\ to_entity # ""
    /\ from_entity \in DictKeys(ents) /\ to_entity \in DictKeys(ents)

\* one iteration of the loop "Method 1: From Association elements"
AssociationStep(d, assoc, ents, rels) ==
    IF ~Truthy(d[assoc], "Name") THEN rels
    ELSE LET end_elements == FindElements(d, assoc, "End")
         IN  IF Len(end_elements) # 2 THEN rels
             ELSE LET end1 == d[end_elements[1]]
                      end2 == d[end_elements[2]]
                      from_entity == LeafType(end1)
                      to_entity == LeafType(end2)
                  IN  IF EndpointsExist(from_entity, to_entity, ents)
                      THEN AppendAssociation(rels,
                               <<from_entity, to_entity,
                                 Get(end1, "Multiplicity", "1"),
                                 Get(end2, "Multiplicity", "1")>>)
                      ELSE rels

\* if rel_tuple not in relationships: relationships.append(rel_tuple)
AppendIfNew(rels, t) ==
    IF \E k \in 1..Len(rels) : rels[k] = t THEN rels ELSE Append(rels, t)

\* the for loop over the two ends: the last end with Role = role, 0 if none;
\* an end that matches from_role is never taken as the target
SourceEnd(d, end_elements, from_role) ==
    LET hits == {k \in 1..Len(end_elements) :
                    Get(d[end_elements[k]], "Role", "") = from_role}
    IN  IF hits = {} THEN 0
        ELSE end_elements[CHOOSE k \in hits : \A h \in hits : h <= k]

TargetEnd(d, end_elements, from_role, to_role) ==
    LET hits == {k \in 1..Len(end_elements) :
                    /\ Get(d[end_elements[k]], "Role", "") # from_role
                    /\ Get(d[end_elements[k]], "Role", "") = to_role}
    IN  IF hits = {} THEN 0
        ELSE end_elements[CHOOSE k \in hits : \A h \in hits : h <= k]

\* "Standard approach": FromRole/ToRole with the association lookup
RoleMatched(d, nav_prop, entity_name, ents, map, rels) ==
    LET relationship == Get(nav_prop, "Relationship", "")
        from_role == Get(nav_prop, "FromRole", "")
        to_role == Get(nav_prop, "ToRole", "")
        assoc_name == SplitLast(relationship, ".")
    IN  IF from_role = "" \/ to_role = "" THEN rels
        ELSE IF relationship \notin DictKeys(map)
                /\ assoc_name \notin DictKeys(map) THEN rels
        ELSE LET assoc == IF relationship \in DictKeys(map)
                          THEN DictGet(map, relationship)
                          ELSE DictGet(map, assoc_name)
                 end_elements == FindElements(d, assoc, "End")
             IN  IF Len(end_elements) # 2 THEN rels
                 ELSE LET source_end == SourceEnd(d, end_elements, from_role)
                          target_end ==
                              TargetEnd(d, end_elements, from_role, to_role)
                      IN  IF source_end = 0 \/ target_end = 0 THEN rels
                          ELSE LET target_entity == LeafType(d[target_end])
                               IN  IF target_entity # ""
                                      /\ target_entity \in DictKeys(ents)
                                   THEN AppendIfNew(rels,
                                          <<entity_name, target_entity,
                                            Get(d[source_end],
                                                "Multiplicity", "1"),
                                            Get(d[target_end],
                                                "Multiplicity", "1")>>)
                                   ELSE rels

\* the name split without the "Per" variant of the second part
NameSplitDirectOnly(nav_prop, entity_name, ents, rels) ==
    LET relationship == Get(nav_prop, "Relationship", "")
        rel_parts == Split(SplitLast(relationship, "."), "_")
    IN  IF Len(rel_parts) = 2 /\ rel_parts[2] \in DictKeys(ents)
        THEN AppendIfNew(rels, <<entity_name, rel_parts[2], "1", "*">>)
        ELSE rels

\* "SAP-specific approach": the relationship name names the target entity
NameSplit(nav_prop, entity_name, ents, rels) ==
    LET relationship == Get(nav_prop, "Relationship", "")
        rel_parts == Split(SplitLast(relationship, "."), "_")
    IN  IF Len(rel_parts) # 2 THEN rels
        ELSE LET second_part == rel_parts[2]
             IN  IF second_part \in DictKeys(ents)
                 THEN AppendIfNew(rels, <<entity_name, second_part, "1", "*">>)
                 ELSE IF ("Per" \o second_part) \in DictKeys(ents)
                 THEN AppendIfNew(rels,
                          <<entity_name, "Per" \o second_part, "1", "*">>)
                 ELSE rels

\* the loop over nav_prop_elements of one entity type, from element j on
RECURSIVE NavigationLoop(_, _, _, _, _, _, _)
NavigationLoop(d, nav_prop_elements, j, entity_name, ents, map, rels) ==
    IF j > Len(nav_prop_elements) THEN rels
    ELSE LET nav_prop == d[nav_prop_elements[j]]
         IN  NavigationLoop(d, nav_prop_elements, j + 1, entity_name, ents,
                 map,
                 IF Get(nav_prop, "Relationship", "") = "" THEN rels
                 ELSE NameSplit(nav_prop, entity_name, ents,
                          RoleMatched(d, nav_prop, entity_name, ents, map,
                                      rels)))

\* one iteration of the loop "Method 2: From NavigationProperty elements"
NavigationStep(d, entity_type, ents, map, rels) ==
    IF ~Truthy(d[entity_type], "Name")
       \/ Get(d[entity_type], "Name", "") \notin DictKeys(ents) THEN rels
    ELSE NavigationLoop(d, FindElements(d, entity_type, "NavigationProperty"),
                        1, d[entity_type].attrs["Name"], ents, map, rels)

-----------------------------------------------------------------------------
(* parse_odata_metadata of app.py.  The value of an attribute that may be  *)
(* None is a sequence: <<>> for None, <<v>> for the string v.  Of the      *)
(* fields of an entity that come from its EntitySet only Tags is modelled  *)
(* (not Label, SetName, Creatable, Updatable, Deletable).  The text of an  *)
(* element is held in attrs under the key "#text", which no XML attribute  *)
(* can have.                                                               *)

ns_sap == "http://www.successfactors.com/edm/sap"

\* node.get(a)
GetOpt(node, a) == IF HasAttr(node, a) THEN <<node.attrs[a]>> ELSE <<>>

\* sap_label = get('{sap uri}label'), or get('sap:label') when that is None;
\* then: sap_label if sap_label else name
LabelOf(node, name) ==
    LET first == GetOpt(node, Tag(ns_sap, "label"))
        sap_label == IF first = <<>> THEN GetOpt(node, "sap:label") ELSE first
    IN  IF sap_label # <<>> /\ sap_label[1] # "" THEN sap_label[1] ELSE name

\* a lookup of the flag under the prefixed name only
VendorFlagPrefixed(node, flag, default) == Get(node, "sap:" \o flag, default)

\* prop.get('{sap uri}flag', default): with a default the result is never
\* None, so the lookup of 'sap:flag' that follows is never made
VendorFlag(node, flag, default) == Get(node, Tag(ns_sap, flag), default)

\* the names of the PropertyRefs of the first Key, in lookup order
KeyNames(d, entity_type) ==
    LET key_elements == FindElements(d, entity_type, "Key")
    IN  IF key_elements = <<>> THEN <<>>
        ELSE LET refs == FindElements(d, key_elements[1], "PropertyRef")
                 named == SelectSeq(refs, LAMBDA r : Truthy(d[r], "Name"))
             IN  [k \in 1..Len(named) |-> d[named[k]].attrs["Name"]]

\* the property dicts of one entity type
MetaProperties(d, entity_type, entity_name, keys) ==
    LET prop_elements == FindElements(d, entity_type, "Property")
        named == SelectSeq(prop_elements, LAMBDA m : Truthy(d[m], "Name"))
    IN  [k \in 1..Len(named) |->
            LET prop == d[named[k]]
                prop_name == prop.attrs["Name"]
            IN  [Entity |-> entity_name,
                 Name |-> prop_name,
                 Type |-> Get(prop, "Type", "Edm.String"),
                 Nullable |-> Get(prop, "Nullable", "true"),
                 MaxLength |-> GetOpt(prop, "MaxLength"),
                 Label |-> LabelOf(prop, prop_name),
                 Required |-> VendorFlag(prop, "required", "false"),
                 Creatable |-> VendorFlag(prop, "creatable", "true"),
                 Updatable |-> VendorFlag(prop, "updatable", "true"),
                 Filterable |-> VendorFlag(prop, "filterable", "true"),
                 IsKey |-> \E q \in 1..Len(keys) : keys[q] = prop_name]]

\* the navigation property dicts of one entity type
MetaNavigation(d, entity_type, entity_name) ==
    LET nav_elements == FindElements(d, entity_type, "NavigationProperty")
        named == SelectSeq(nav_elements, LAMBDA m : Truthy(d[m], "Name"))
    IN  [k \in 1..Len(named) |->
            LET nav_prop == d[named[k]]
            IN  [Entity |-> entity_name,
                 Name |-> nav_prop.attrs["Name"],
                 Relationship |-> Get(nav_prop, "Relationship", ""),
                 FromRole |-> Get(nav_prop, "FromRole", ""),
                 ToRole |-> Get(nav_prop, "ToRole", ""),
                 Label |-> LabelOf(nav_prop, nav_prop.attrs["Name"])]]

\* n.find('.//tag'): the first descendant of n with that tag, 0 for None
FindFirst(d, n, tag) ==
    LET found == FindDescendants(d, n, tag)
    IN  IF found = <<>> THEN 0 ELSE found[1]

\* the texts of the tag elements below a tag collection, those with a text
TagTexts(d, tag_collection, tag) ==
    LET found == SelectSeq(FindDescendants(d, tag_collection, tag),
                           LAMBDA m : Truthy(d[m], "#text"))
    IN  [k \in 1..Len(found) |-> d[found[k]].attrs["#text"]]

\* for x in items: if x not in list: list.append(x)
RECURSIVE AppendEachNew(_, _, _)
AppendEachNew(list, items, i) ==
    IF i > Len(items) THEN list
    ELSE AppendEachNew(AppendIfNew(list, items[i]), items, i + 1)

\* entity_tags of an EntitySet: the three approaches of lines 78-101
EntityTags(d, entity_set) ==
    LET first_collection ==
            FindFirst(d, entity_set, Tag(ns_sap, "tagcollection"))
        first_tags ==
            IF first_collection = 0 THEN <<>>
            ELSE TagTexts(d, first_collection, Tag(ns_sap, "tag"))
        doc_element == FindFirst(d, entity_set, "Documentation")
        second_collection ==
            IF doc_element = 0 THEN 0
            ELSE FindFirst(d, doc_element, Tag(ns_sap, "tagcollection"))
        second_tags ==
            IF second_collection = 0 THEN first_tags
            ELSE AppendEachNew(first_tags,
                     TagTexts(d, second_collection, Tag(ns_sap, "tag")), 1)
        third_collection ==
            IF doc_element = 0 THEN 0
            ELSE FindFirst(d, doc_element, "tagcollection")
    IN  IF third_collection = 0 THEN second_tags
        ELSE AppendEachNew(second_tags,
                 TagTexts(d, third_collection, "tag"), 1)

\* the four EntitySet lookups on the root
FindEntitySets(d) ==
    FindDescendants(d, 1, "EntitySet")
    \o FindDescendants(d, 1, Tag(ns_edm2008, "EntitySet"))
    \o FindDescendants(d, 1, Tag(ns_edm, "EntitySet"))
    \o FindDescendants(d, 1, Tag(ns_edm2008, "EntitySet"))

\* lines 114-118: enter the entity name under one tag of metadata['tags']
IndexTag(tags, tag, entity_name) ==
    IF tag \in DictKeys(tags)
    THEN DictSet(tags, tag, AppendIfNew(DictGet(tags, tag), entity_name))
    ELSE DictSet(tags, tag, <<entity_name>>)

RECURSIVE IndexTags(_, _, _, _)
IndexTags(tags, entity_tags, i, entity_name) ==
    IF i > Len(entity_tags) THEN tags
    ELSE IndexTags(IndexTag(tags, entity_tags[i], entity_name),
                   entity_tags, i + 1, entity_name)

\* one iteration of the loop over entity_set_elements (lines 67-118); st
\* holds entity_sets and metadata['tags']
EntitySetStep(d, entity_set, st) ==
    LET entity_type == Get(d[entity_set], "EntityType", "")
        entity_name ==
            IF entity_type # "" THEN SplitLast(entity_type, ".") ELSE ""
        entity_tags == EntityTags(d, entity_set)
    IN  IF entity_name = "" THEN st
        ELSE [entity_sets |->
                  DictSet(st.entity_sets, entity_name,
                          [Tags |-> entity_tags]),
              tags |-> IndexTags(st.tags, entity_tags, 1, entity_name)]

RECURSIVE EntitySetLoop(_, _, _, _)
EntitySetLoop(d, entity_set_elements, i, st) ==
    IF i > Len(entity_set_elements) THEN st
    ELSE EntitySetLoop(d, entity_set_elements, i + 1,
                       EntitySetStep(d, entity_set_elements[i], st))

\* variant of KeepMetaEntity: an entry is appended for every named entity type
KeepMetaEntityAlways(properties) == TRUE

\* does the loop append the entity entry it has just built?
KeepMetaEntity(properties) == properties # <<>>

\* one iteration of the loop over all_entity_type_elements (lines 148-292)
MetaEntityStep(d, entity_type, entity_sets, md) ==
    IF ~Truthy(d[entity_type], "Name") THEN md
    ELSE LET entity_name == d[entity_type].attrs["Name"]
             entity_tags ==
                 IF entity_name \in DictKeys(entity_sets)
                 THEN DictGet(entity_sets, entity_name).Tags
                 ELSE <<>>
             keys == KeyNames(d, entity_type)
             properties == MetaProperties(d, entity_type, entity_name, keys)
         IN  [md EXCEPT
                !.keys = @ \o [k \in 1..Len(keys) |->
                                  [Entity |-> entity_name,
                                   KeyProperty |-> keys[k]]],
                !.entities =
                    IF KeepMetaEntity(properties)
                    THEN Append(@, [Name |-> entity_name,
                                    Properties |-> properties,
                                    Tags |-> entity_tags])
                    ELSE @,
                !.navigation_properties =
                    @ \o MetaNavigation(d, entity_type, entity_name)]

RECURSIVE MetaEntityLoop(_, _, _, _, _)
MetaEntityLoop(d, entity_types, i, entity_sets, md) ==
    IF i > Len(entity_types) THEN md
    ELSE MetaEntityLoop(d, entity_types, i + 1, entity_sets,
             MetaEntityStep(d, entity_types[i], entity_sets, md))

\* one iteration of the loop over all_assoc_elements (lines 294-335)
MetaAssociationStep(d, assoc, md) ==
    IF ~Truthy(d[assoc], "Name") THEN md
    ELSE LET end_elements == FindElements(d, assoc, "End")
         IN  IF Len(end_elements) # 2 THEN md
             ELSE LET end1 == d[end_elements[1]]
                      end2 == d[end_elements[2]]
                      from_entity == LeafType(end1)
                      to_entity == LeafType(end2)
                      entity_names == {md.entities[i].Name :
                                          i \in 1..Len(md.entities)}
                  IN  IF from_entity = "" \/ to_entity = "" THEN md
                      ELSE IF from_entity \notin entity_names
                              \/ to_entity \notin entity_names THEN md
                      ELSE [md EXCEPT !.relationships = Append(@,
                              [Name |-> d[assoc].attrs["Name"],
                               FromEntity |-> from_entity,
                               ToEntity |-> to_entity,
                               FromMultiplicity |->
                                   Get(end1, "Multiplicity", "1"),
                               ToMultiplicity |->
                                   Get(end2, "Multiplicity", "1")])]

RECURSIVE MetaAssociationLoop(_, _, _, _)
MetaAssociationLoop(d, assocs, i, md) ==
    IF i > Len(assocs) THEN md
    ELSE MetaAssociationLoop(d, assocs, i + 1,
                             MetaAssociationStep(d, assocs[i], md))

EmptyMetadata ==
    [entities |-> <<>>, relationships |-> <<>>, keys |-> <<>>,
     navigation_properties |-> <<>>, tags |-> <<>>]

\* the metadata dict returned when a Schema element is found
parse_odata_metadata(d) ==
    LET schemas == FindSchemas(d)
        entity_types == CollectFrom(d, schemas, 1, "EntityType")
        assocs == CollectFrom(d, schemas, 1, "Association")
        sets == EntitySetLoop(d, FindEntitySets(d), 1,
                              [entity_sets |-> <<>>, tags |-> <<>>])
    IN  MetaAssociationLoop(d, assocs, 1,
            MetaEntityLoop(d, entity_types, 1, sets.entity_sets,
                           [EmptyMetadata EXCEPT !.tags = sets.tags]))

-----------------------------------------------------------------------------
(* The documents the model reads: an Edmx root, a DataServices element and *)
(* one Schema, all of whose elements are in the namespace uri, holding a   *)
(* choice of entity types and associations.                                *)

MaxEntityTypes == 2     \* EntityType elements of a document
MaxAssociations == 2    \* Association elements of a document
MaxEntitySets == 2      \* EntitySet elements of a document

\* an element with its children, before it is laid out in document order
Elem(tag, attrs, children) ==
    [tag |-> tag, attrs |-> attrs, children |-> children]

RECURSIVE Flatten(_, _, _)
RECURSIVE FlattenChildren(_, _, _, _)
Flatten(acc, e, parent) ==
    FlattenChildren(
        Append(acc, [tag |-> e.tag, attrs |-> e.attrs, parent |-> parent]),
        e.children, 1, Len(acc) + 1)
FlattenChildren(acc, children, i, parent) ==
    IF i > Len(children) THEN acc
    ELSE FlattenChildren(Flatten(acc, children[i], parent), children, i + 1,
                         parent)

\* a namespace of another EDM version (OData 4), known to no lookup
ns_other == "http://docs.oasis-open.org/odata/ns/edm"

NamespaceForms == {ns_edm, ns_edm2008, "", ns_other}

KeyElem(u, name) ==
    Elem(Tag(u, "Key"), <<>>,
         <<Elem(Tag(u, "PropertyRef"), [Name |-> name], <<>>)>>)

EntityTypePool(u) == <<
    Elem(Tag(u, "EntityType"), [Name |-> "Emp"], <<
        KeyElem(u, "id"),
        Elem(Tag(u, "Property"),
             [Name |-> "id", Type |-> "Edm.String", Nullable |-> "false"],
             <<>>),
        Elem(Tag(u, "Property"),
             [Name |-> "name"] @@ (Tag(ns_sap, "required") :> "true")
                 @@ (Tag(ns_sap, "updatable") :> "false"),
             <<>>),
        Elem(Tag(u, "NavigationProperty"),
             [Name |-> "dept", Relationship |-> "NS.Emp_Dept",
              FromRole |-> "Emp", ToRole |-> "Dept"], <<>>) >>),
    Elem(Tag(u, "EntityType"), [Name |-> "Dept"], <<
        KeyElem(u, "id"),
        Elem(Tag(u, "Property"), [Name |-> "id", Type |-> "Edm.Int32"], <<>>),
        Elem(Tag(u, "NavigationProperty"),
             [Name |-> "phones", Relationship |-> "NS.PerPhone_Person",
              FromRole |-> "a", ToRole |-> "b"], <<>>),
        Elem(Tag(u, "NavigationProperty"),
             [Name |-> "staff", Relationship |-> "NS.Emp_Dept",
              FromRole |-> "Dept", ToRole |-> "Emp"], <<>>) >>),
    Elem(Tag(u, "EntityType"), [Name |-> "Ghost"], <<
        KeyElem(u, "gid"),
        Elem(Tag(u, "Property"), [Type |-> "Edm.String"], <<>>),
        Elem(Tag(u, "NavigationProperty"),
             [Name |-> "emp", Relationship |-> "NS.Ghost_Emp"], <<>>) >>),
    Elem(Tag(u, "EntityType"), [Name |-> "PerPerson"], <<
        Elem(Tag(u, "Property"),
             [Name |-> "personId", Type |-> "Edm.Int64"], <<>>),
        Elem(Tag(u, "NavigationProperty"), [Name |-> "none"], <<>>),
        Elem(Tag(u, "NavigationProperty"),
             [Name |-> "boss", Relationship |-> "Works",
              FromRole |-> "y", ToRole |-> "x"], <<>>),
        Elem(Tag(u, "NavigationProperty"),
             [Name |-> "emp", Relationship |-> "NS.Ghost_Emp"], <<>>) >>),
    Elem(Tag(u, "EntityType"), [Name |-> "Emp"], <<
        Elem(Tag(u, "Property"),
             [Name |-> "badge", Type |-> "Edm.Guid"], <<>>),
        Elem(Tag(u, "NavigationProperty"),
             [Name |-> "unit", Relationship |-> "NS.Emp_Dept"], <<>>) >>),
    Elem(Tag(u, "EntityType"), <<>>, <<
        Elem(Tag(u, "Property"), [Name |-> "x"], <<>>) >>) >>

AssociationPool(u) == <<
    Elem(Tag(u, "Association"), [Name |-> "Emp_Dept"], <<
        Elem(Tag(u, "End"),
             [Role |-> "Emp", Type |-> "NS.Emp", Multiplicity |-> "*"], <<>>),
        Elem(Tag(u, "End"),
             [Role |-> "Dept", Type |-> "NS.Dept", Multiplicity |-> "1"],
             <<>>) >>),
    Elem(Tag(u, "Association"), [Name |-> "Works"], <<
        Elem(Tag(u, "End"),
             [Role |-> "x", Type |-> "NS.Emp", Multiplicity |-> "*"], <<>>),
        Elem(Tag(u, "End"),
             [Role |-> "y", Type |-> "NS.Dept", Multiplicity |-> "1"],
             <<>>) >>),
    Elem(Tag(u, "Association"), [Name |-> "Emp_Ghost"], <<
        Elem(Tag(u, "End"), [Type |-> "NS.Emp"], <<>>),
        Elem(Tag(u, "End"),
             [Type |-> "NS.Ghost", Multiplicity |-> "*"], <<>>) >>),
    Elem(Tag(u, "Association"), [Name |-> "Self"], <<
        Elem(Tag(u, "End"),
             [Role |-> "x", Type |-> "NS.Emp", Multiplicity |-> "1"],
             <<>>) >>),
    Elem(Tag(u, "Association"), <<>>, <<
        Elem(Tag(u, "End"), [Type |-> "NS.Emp"], <<>>),
        Elem(Tag(u, "End"), [Type |-> "NS.Dept"], <<>>) >>) >>

\* the elements of pool at the indices of picks, in pool order
RECURSIVE Pick(_, _, _)
Pick(pool, picks, i) ==
    IF i > Len(pool) THEN <<>>
    ELSE (IF i \in picks THEN <<pool[i]>> ELSE <<>>)
         \o Pick(pool, picks, i + 1)

Document(u, entity_types, associations) ==
    Flatten(<<>>,
        Elem(Tag(ns_edmx, "Edmx"), <<>>, <<
            Elem(Tag(ns_edmx, "DataServices"), <<>>, <<
                Elem(Tag(u, "Schema"), [Namespace |-> "NS"],
                     Pick(EntityTypePool(u), entity_types, 1)
                     \o Pick(AssociationPool(u), associations, 1)) >>) >>),
        0)

\* a document whose root element is the Schema
RootSchemaDocument(u, entity_types) ==
    Flatten(<<>>,
        Elem(Tag(u, "Schema"), [Namespace |-> "NS"],
             Pick(EntityTypePool(u), entity_types, 1)),
        0)

\* a document without a Schema: the entity types are children of DataServices
NoSchemaDocument(u, entity_types) ==
    Flatten(<<>>,
        Elem(Tag(ns_edmx, "Edmx"), <<>>, <<
            Elem(Tag(ns_edmx, "DataServices"), <<>>,
                 Pick(EntityTypePool(u), entity_types, 1)) >>),
        0)

\* a document with two Schema elements, the second in the namespace that no
\* lookup knows, holding the entity type Dept
TwoSchemaDocument(u, entity_types) ==
    Flatten(<<>>,
        Elem(Tag(ns_edmx, "Edmx"), <<>>, <<
            Elem(Tag(ns_edmx, "DataServices"), <<>>, <<
                Elem(Tag(u, "Schema"), [Namespace |-> "NS"],
                     Pick(EntityTypePool(u), entity_types, 1)),
                Elem(Tag(ns_other, "Schema"), [Namespace |-> "Other"],
                     <<EntityTypePool(ns_other)[2]>>) >>) >>),
        0)

\* an element with a text
TextElem(tag, text) == Elem(tag, [x \in {"#text"} |-> text], <<>>)

EntitySetPool(u) == <<
    Elem(Tag(u, "EntitySet"), [Name |-> "EmpSet", EntityType |-> "NS.Emp"], <<
        Elem(Tag(u, "Documentation"), <<>>, <<
            Elem(Tag(ns_sap, "tagcollection"), <<>>, <<
                TextElem(Tag(ns_sap, "tag"), "HR"),
                TextElem(Tag(ns_sap, "tag"), "Core"),
                Elem(Tag(ns_sap, "tag"), <<>>, <<>>) >>) >>) >>),
    Elem(Tag(u, "EntitySet"),
         [Name |-> "DeptSet", EntityType |-> "NS.Dept"], <<
        Elem(Tag(ns_sap, "tagcollection"), <<>>, <<
            TextElem(Tag(ns_sap, "tag"), "HR"),
            TextElem(Tag(ns_sap, "tag"), "HR") >>) >>),
    Elem(Tag(u, "EntitySet"),
         [Name |-> "GhostSet", EntityType |-> "NS.Ghost"], <<
        Elem(Tag(u, "Documentation"), <<>>, <<
            Elem(Tag(ns_sap, "tagcollection"), <<>>, <<
                TextElem(Tag(ns_sap, "tag"), "Old") >>) >>) >>),
    Elem(Tag(u, "EntitySet"),
         [Name |-> "EmpArchive", EntityType |-> "NS.Emp"], <<
        Elem(Tag(u, "Documentation"), <<>>, <<
            Elem(Tag(ns_sap, "tagcollection"), <<>>, <<
                TextElem(Tag(ns_sap, "tag"), "Old") >>) >>) >>),
    Elem(Tag(u, "EntitySet"),
         [Name |-> "PersonSet", EntityType |-> "PerPerson"], <<
        Elem(Tag(u, "Documentation"), <<>>, <<
            Elem("tagcollection", <<>>, <<
                TextElem("tag", "Plain") >>) >>) >>),
    Elem(Tag(u, "EntitySet"), [Name |-> "Loose"], <<
        Elem(Tag(ns_sap, "tagcollection"), <<>>, <<
            TextElem(Tag(ns_sap, "tag"), "HR") >>) >>) >>

\* a document whose Schema holds entity types and an EntityContainer with
\* entity sets
EntitySetDocument(u, entity_types, entity_sets) ==
    Flatten(<<>>,
        Elem(Tag(ns_edmx, "Edmx"), <<>>, <<
            Elem(Tag(ns_edmx, "DataServices"), <<>>, <<
                Elem(Tag(u, "Schema"), [Namespace |-> "NS"],
                     Pick(EntityTypePool(u), entity_types, 1)
                     \o <<Elem(Tag(u, "EntityContainer"),
                               [Name |-> "Container"],
                               Pick(EntitySetPool(u), entity_sets, 1))>>)
                >>) >>),
        0)

\* the entity types of these documents are among Emp, Dept and Ghost
EntitySetDocuments ==
    {EntitySetDocument(u, ets, sets) :
        u \in NamespaceForms,
        ets \in {p \in SUBSET (1..3) : Cardinality(p) <= MaxEntityTypes},
        sets \in {p \in SUBSET (1..Len(EntitySetPool(""))) :
                    p # {} /\ Cardinality(p) <= MaxEntitySets}}

OtherDocuments ==
    UNION {{RootSchemaDocument(u, ets), NoSchemaDocument(u, ets),
            TwoSchemaDocument(u, ets)} :
        u \in NamespaceForms,
        ets \in {p \in SUBSET (1..Len(EntityTypePool(""))) :
                    Cardinality(p) <= MaxEntityTypes}}

SchemaDocuments ==
    {Document(u, ets, as) :
        u \in NamespaceForms,
        ets \in {p \in SUBSET (1..Len(EntityTypePool(""))) :
                    Cardinality(p) <= MaxEntityTypes},
        as \in {p \in SUBSET (1..Len(AssociationPool(""))) :
                    Cardinality(p) <= MaxAssociations}}

\* a document whose Schema holds the entity type Emp, or Emp and Dept, and
\* after them an EntityType named Emp that has no Property
DuplicateDocument(u, entity_types) ==
    Flatten(<<>>,
        Elem(Tag(ns_edmx, "Edmx"), <<>>, <<
            Elem(Tag(ns_edmx, "DataServices"), <<>>, <<
                Elem(Tag(u, "Schema"), [Namespace |-> "NS"],
                     Pick(EntityTypePool(u), entity_types, 1)
                     \o <<Elem(Tag(u, "EntityType"), [Name |-> "Emp"], <<
                              Elem(Tag(u, "NavigationProperty"),
                                   [Name |-> "unit",
                                    Relationship |-> "NS.Emp_Dept"],
                                   <<>>) >>)>>
                     \o Pick(AssociationPool(u), {1}, 1)) >>) >>),
        0)

DuplicateDocuments ==
    {DuplicateDocument(u, ets) : u \in NamespaceForms, ets \in {{1}, {1, 2}}}

\* a document with Dept, or Dept and PerPerson, and an association one End
\* of which has a Role and a Multiplicity but no Type
UntypedEndDocument(u, entity_types) ==
    Flatten(<<>>,
        Elem(Tag(ns_edmx, "Edmx"), <<>>, <<
            Elem(Tag(ns_edmx, "DataServices"), <<>>, <<
                Elem(Tag(u, "Schema"), [Namespace |-> "NS"],
                     Pick(EntityTypePool(u), entity_types, 1)
                     \o <<Elem(Tag(u, "Association"),
                               [Name |-> "PerPhone_Person"], <<
                              Elem(Tag(u, "End"),
                                   [Role |-> "a", Multiplicity |-> "*"],
                                   <<>>),
                              Elem(Tag(u, "End"),
                                   [Role |-> "b", Type |-> "NS.PerPerson",
                                    Multiplicity |-> "1"], <<>>) >>)>>)
                >>) >>),
        0)

UntypedEndDocuments ==
    {UntypedEndDocument(u, ets) : u \in NamespaceForms, ets \in {{2}, {2, 4}}}

Documents ==
    SchemaDocuments \cup OtherDocuments \cup EntitySetDocuments
    \cup DuplicateDocuments \cup UntypedEndDocuments

-----------------------------------------------------------------------------
(* The program: main() of app.py on an uploaded document, without the      *)
(* entity filter: parse_odata_metadata, parse_odata_file, then              *)
(* generate_mermaid_diagram.                                               *)

Init ==
    /\ pc = "start"
    /\ doc \in Documents
    /\ metadata = EmptyMetadata
    /\ schema_elements = <<>>
    /\ all_entity_type_elements = <<>>
    /\ all_assoc_elements = <<>>
    /\ assoc_map = <<>>
    /\ cursor = 1
    /\ entities = <<>>
    /\ relationships = <<>>
    /\ diagram = ""
    /\ entity_filter = <<>>
    /\ include_related = FALSE
    /\ filtered_entities = <<>>
    /\ filtered_relationships = <<>>

\* app.py line 684: metadata = parse_odata_metadata(xml_content), which
\* raises ValueError when it finds no Schema element
ParseMetadata ==
    /\ pc = "start"
    /\ IF FindSchemas(doc) = <<>>
       THEN pc' = "error" /\ metadata' = metadata
       ELSE pc' = "parse_file" /\ metadata' = parse_odata_metadata(doc)
    /\ UNCHANGED <<doc, schema_elements, all_entity_type_elements,
                   all_assoc_elements, assoc_map, cursor, entities,
                   relationships, diagram>>
    /\ UNCHANGED filter_vars

\* lines 21-44: find the Schema elements or raise ValueError
LocateSchemas ==
    /\ pc = "parse_file"
    /\ schema_elements' = FindSchemas(doc)
    /\ pc' = IF schema_elements' = <<>> THEN "error" ELSE "collect"
    /\ UNCHANGED <<doc, metadata, all_entity_type_elements, all_assoc_elements,
                   assoc_map, cursor, entities, relationships, diagram>>
    /\ UNCHANGED filter_vars

\* lines 46-77: collect the EntityType and Association elements
CollectElements ==
    /\ pc = "collect"
    /\ all_entity_type_elements' =
           CollectFrom(doc, schema_elements, 1, "EntityType")
    /\ all_assoc_elements' =
           CollectFrom(doc, schema_elements, 1, "Association")
    /\ cursor' = 1
    /\ pc' = IF all_entity_type_elements' = <<>> THEN "assoc_map"
             ELSE "entity_types"
    /\ UNCHANGED <<doc, metadata, schema_elements, assoc_map, entities, relationships,
                   diagram>>
    /\ UNCHANGED filter_vars

\* lines 102-173: one iteration of the loop over all_entity_type_elements
ExtractEntityType ==
    /\ pc = "entity_types"
    /\ entities' =
           ExtractEntity(doc, all_entity_type_elements[cursor], entities)
    /\ IF cursor < Len(all_entity_type_elements)
       THEN cursor' = cursor + 1 /\ pc' = pc
       ELSE cursor' = 1 /\ pc' = "assoc_map"
    /\ UNCHANGED <<doc, metadata, schema_elements, all_entity_type_elements,
                   all_assoc_elements, assoc_map, relationships, diagram>>
    /\ UNCHANGED filter_vars

\* lines 175-196: build assoc_map
BuildAssocMap ==
    /\ pc = "assoc_map"
    /\ assoc_map' = BuildAssocMapFrom(doc, all_assoc_elements, 1, <<>>)
    /\ cursor' = 1
    /\ pc' = IF all_assoc_elements # <<>> THEN "associations"
             ELSE IF all_entity_type_elements # <<>> THEN "navigation"
             ELSE "model"
    /\ UNCHANGED <<doc, metadata, schema_elements, all_entity_type_elements,
                   all_assoc_elements, entities, relationships, diagram>>
    /\ UNCHANGED filter_vars

\* lines 198-222: one iteration of the loop over all_assoc_elements
AssociationPass ==
    /\ pc = "associations"
    /\ relationships' =
           AssociationStep(doc, all_assoc_elements[cursor], entities,
                           relationships)
    /\ IF cursor < Len(all_assoc_elements)
       THEN cursor' = cursor + 1 /\ pc' = pc
       ELSE /\ cursor' = 1
            /\ pc' = IF all_entity_type_elements # <<>> THEN "navigation"
                     ELSE "model"
    /\ UNCHANGED <<doc, metadata, schema_elements, all_entity_type_elements,
                   all_assoc_elements, assoc_map, entities, diagram>>
    /\ UNCHANGED filter_vars

\* lines 224-327: one iteration of the second loop over
\* all_entity_type_elements; after the last one the function returns
NavigationPass ==
    /\ pc = "navigation"
    /\ relationships' =
           NavigationStep(doc, all_entity_type_elements[cursor], entities,
                          assoc_map, relationships)
    /\ IF cursor < Len(all_entity_type_elements)
       THEN cursor' = cursor + 1 /\ pc' = pc
       ELSE cursor' = 1 /\ pc' = "model"
    /\ UNCHANGED <<doc, metadata, schema_elements, all_entity_type_elements,
                   all_assoc_elements, assoc_map, entities, diagram>>
    /\ UNCHANGED filter_vars

\* app.py line 818 (no entity selected) and lines 329-414: render the model
GenerateMermaid ==
    /\ pc = "model"
    /\ entity_filter = <<>>
    /\ diagram' \in RenderOutcomes(entities, relationships)
    /\ pc' = "rendered"
    /\ UNCHANGED <<doc, metadata, schema_elements, all_entity_type_elements,
                   all_assoc_elements, assoc_map, cursor, entities,
                   relationships>>
    /\ UNCHANGED filter_vars

Next ==
    \/ ParseMetadata
    \/ LocateSchemas
    \/ CollectElements
    \/ ExtractEntityType
    \/ BuildAssocMap
    \/ AssociationPass
    \/ NavigationPass
    \/ GenerateMermaid

Spec == Init /\ [][Next]_vars

-----------------------------------------------------------------------------
(* generate_mermaid_diagram called on a model given directly *)

MaxProperties == 2      \* properties of the entity of a property model
MaxEntities == 2        \* entities of an order model
MaxRelationships == 2   \* relationships of an order model

\* sequences over the set S of length at most n
SeqsUpTo(S, n) == UNION {[1..k -> S] : k \in 0..n}

\* sequences of distinct elements
Distinct(q) == \A i, j \in 1..Len(q) : i # j => q[i] # q[j]

EntityNames == {"Emp", "Pay-Grade", "Pay_Grade", "Cost Center", "Job(Info)"}

PropertyPool == {
    <<"id (PK)", "String", "false">>,
    <<"name", "String", "true">>,
    <<"name", "String", "false">>,
    <<"ts", "DateTime", "true">>,
    <<"ts", "DateTimeOffset", "true">>,
    <<"a-b", "String", "true">>,
    <<"a_b", "String", "true">>,
    <<"a_b", "c", "true">>,
    <<"a", "b_c", "true">>,
    <<"first name", "String", "true">>,
    <<"first x", "String", "true">> }

\* one entity with any properties, alone or related to itself
PropertyModels ==
    UNION {
        {<< <<<<name, props>>>>, rels >> :
            props \in SeqsUpTo(PropertyPool, MaxProperties),
            rels \in {<<>>, <<<<name, name, "1", "1">>>>}} :
        name \in EntityNames}

OrderNames == {"Emp", "Pay-Grade", "Job(Info)"}

PropertiesOf(name) ==
    IF name = "Emp"
    THEN << <<"id (PK)", "String", "false">>, <<"name", "String", "true">>,
            <<"name", "String", "true">> >>
    ELSE << <<"id (PK)", "Int32", "false">> >>

\* several entities and several relationships between them
OrderModels ==
    UNION {
        {<< [i \in 1..Len(names) |-> <<names[i], PropertiesOf(names[i])>>],
            rels >> :
            rels \in SeqsUpTo({<<a, b, "1", "*">> :
                                  a \in {names[i] : i \in 1..Len(names)},
                                  b \in {names[i] : i \in 1..Len(names)}},
                              MaxRelationships)} :
        names \in {q \in SeqsUpTo(OrderNames, MaxEntities) : Distinct(q)}}

Multiplicities == {"1", "*", "0..*", "0..1"}

\* two entities and one relationship of any multiplicity pair
MultiplicityModels ==
    {<< << <<"Emp", PropertiesOf("Emp")>>, <<"Dept", PropertiesOf("Dept")>> >>,
        << <<"Emp", "Dept", from_mult, to_mult>> >> >> :
        from_mult \in Multiplicities, to_mult \in Multiplicities}

TypeNames == {
    "String", "Int32", "Int64", "Boolean", "DateTime", "DateTimeOffset",
    "Time", "Decimal", "Double", "Single", "Guid", "Binary",
    "Edm.String", "Edm.Int32", "Edm.Int64", "Edm.Boolean", "Edm.DateTime",
    "Edm.DateTimeOffset", "Edm.Time", "Edm.Decimal", "Edm.Double",
    "Edm.Single", "Edm.Guid", "Edm.Binary",
    "Edm.Stream", "Stream", "", "int32", "Address", "MyString",
    "LocalDateTime", "SignedInt32", "Edm.GeographyPoint" }

\* one entity with one property of any type
TypeModels ==
    {<< << <<"Emp", << <<"p", t, "true">> >> >> >>, <<>> >> : t \in TypeNames}

\* two entities whose names differ in one character, related or not
SimilarNames == {"Pay-Grade", "Pay_Grade", "Pay Grade", "PayGrade"}

SimilarNameModels ==
    UNION {
        {<< << <<names[1], PropertiesOf(names[1])>>,
               <<names[2], PropertiesOf(names[2])>> >>, rels >> :
            rels \in {<<>>, << <<names[1], names[2], "1", "*">> >>}} :
        names \in {q \in SimilarNames \X SimilarNames : q[1] # q[2]}}

RenderModels ==
    PropertyModels \cup OrderModels \cup MultiplicityModels \cup TypeModels
    \cup SimilarNameModels

InitRender ==
    /\ pc = "model"
    /\ \E m \in RenderModels : entities = m[1] /\ relationships = m[2]
    /\ doc = <<>>
    /\ metadata = EmptyMetadata
    /\ schema_elements = <<>>
    /\ all_entity_type_elements = <<>>
    /\ all_assoc_elements = <<>>
    /\ assoc_map = <<>>
    /\ cursor = 1
    /\ diagram = ""
    /\ entity_filter = <<>>
    /\ include_related = FALSE
    /\ filtered_entities = <<>>
    /\ filtered_relationships = <<>>

NextRender == GenerateMermaid

SpecRender == InitRender /\ [][NextRender]_vars

-----------------------------------------------------------------------------
(* The diagram filter of main (app.py lines 771-799).  main offers the     *)
(* selection of entities for models of more than 50 entities; the filter   *)
(* itself does not read the size of the model.                             *)

\* {k: v for k, v in entities.items() if k in entity_filter}
SelectedEntities(ents, filter) ==
    SelectSeq(ents, LAMBDA e : \E i \in 1..Len(filter) : filter[i] = e[1])

\* variant of RelatedEntities: only the target end of a relationship that
\* starts at a selected name
RelatedEntitiesForward(rels, filter, related) ==
    LET selected == {filter[i] : i \in 1..Len(filter)}
    IN  IF ~related THEN {}
        ELSE {rels[k][2] : k \in {r \in 1..Len(rels) :
                                      /\ rels[r][1] \in selected
                                      /\ rels[r][2] \notin selected}}

\* related_entities: the other end of every relationship with exactly one
\* end among the selected names, when include_related is checked
RelatedEntities(rels, filter, related) ==
    LET selected == {filter[i] : i \in 1..Len(filter)}
    IN  IF ~related THEN {}
        ELSE {rels[k][2] : k \in {r \in 1..Len(rels) :
                                      /\ rels[r][1] \in selected
                                      /\ rels[r][2] \notin selected}}
             \cup {rels[k][1] : k \in {r \in 1..Len(rels) :
                                          /\ rels[r][2] \in selected
                                          /\ rels[r][1] \notin selected}}

\* the loop over related_entities, gone through in the given order
RECURSIVE AddRelated(_, _, _, _)
AddRelated(ents, filtered, order, i) ==
    IF i > Len(order) THEN filtered
    ELSE AddRelated(ents,
             IF order[i] \in DictKeys(ents)
             THEN DictSet(filtered, order[i], DictGet(ents, order[i]))
             ELSE filtered,
             order, i + 1)

\* faulty variant of KeepRelationship: one end among the kept entities is
\* enough
KeepRelationshipEitherEnd(rel, filtered) ==
    rel[1] \in DictKeys(filtered) \/ rel[2] \in DictKeys(filtered)

\* if from_entity in filtered_entities and to_entity in filtered_entities
KeepRelationship(rel, filtered) ==
    rel[1] \in DictKeys(filtered) /\ rel[2] \in DictKeys(filtered)

FilteredRelationships(rels, filtered) ==
    SelectSeq(rels, LAMBDA rel : KeepRelationship(rel, filtered))

\* lines 771-799: filter the model and render what is kept
FilterDiagram ==
    /\ pc = "model"
    /\ entity_filter # <<>>
    /\ \E order \in Orderings(RelatedEntities(relationships, entity_filter,
                                               include_related)) :
           filtered_entities' =
               AddRelated(entities,
                          SelectedEntities(entities, entity_filter), order, 1)
    /\ filtered_relationships' =
           FilteredRelationships(relationships, filtered_entities')
    /\ diagram' \in RenderOutcomes(filtered_entities', filtered_relationships')
    /\ pc' = "rendered"
    /\ UNCHANGED <<doc, metadata, schema_elements, all_entity_type_elements,
                   all_assoc_elements, assoc_map, cursor, entities,
                   relationships, entity_filter, include_related>>

FilterNames == <<"Emp", "Dept", "Job">>

\* the model the filter is applied to: three entities and any relationships
\* between them
FilterEntities ==
    [i \in 1..Len(FilterNames) |->
        <<FilterNames[i], << <<"id (PK)", "String", "false">> >> >>]

\* a relationship between each two of the three entities
NeighbourRelationships ==
    << <<"Emp", "Dept", "1", "*">>, <<"Job", "Emp", "1", "*">>,
       <<"Dept", "Job", "*", "*">> >>

FilterRelationships ==
    SeqsUpTo({<<FilterNames[a], FilterNames[b], "1", "*">> :
                 a \in 1..Len(FilterNames), b \in 1..Len(FilterNames)},
             MaxRelationships)
    \cup {NeighbourRelationships}

\* what the multiselect returns: any entity names, each once, in any order;
\* the empty list when nothing is selected
EntityFilters ==
    {q \in SeqsUpTo({FilterNames[i] : i \in 1..Len(FilterNames)},
                    Len(FilterNames)) : Distinct(q)}

InitFilter ==
    /\ pc = "model"
    /\ entities = FilterEntities
    /\ relationships \in FilterRelationships
    /\ entity_filter \in EntityFilters
    /\ include_related \in {IF entity_filter = <<>> THEN FALSE ELSE b :
                               b \in BOOLEAN}
    /\ filtered_entities = <<>>
    /\ filtered_relationships = <<>>
    /\ doc = <<>>
    /\ metadata = EmptyMetadata
    /\ schema_elements = <<>>
    /\ all_entity_type_elements = <<>>
    /\ all_assoc_elements = <<>>
    /\ assoc_map = <<>>
    /\ cursor = 1
    /\ diagram = ""

NextFilter == FilterDiagram \/ GenerateMermaid

SpecFilter == InitFilter /\ [][NextFilter]_vars

\* a further call of generate_mermaid_diagram on the same model, as every
\* rerun of main makes
GenerateMermaidAgain ==
    /\ pc = "rendered"
    /\ diagram' \in RenderOutcomes(entities, relationships)
    /\ pc' = "rendered_again"
    /\ UNCHANGED <<doc, metadata, schema_elements, all_entity_type_elements,
                   all_assoc_elements, assoc_map, cursor, entities,
                   relationships>>
    /\ UNCHANGED filter_vars

NextRepeat == GenerateMermaid \/ GenerateMermaidAgain

SpecRepeat == InitRender /\ [][NextRepeat]_vars

-----------------------------------------------------------------------------
(* Properties *)

Range(q) == {q[i] : i \in 1..Len(q)}

\* the lines of the returned text
Lines == Split(diagram, "\n")

\* the four replacements of the name sanitization
Sanitized(name) ==
    Replace(Replace(Replace(Replace(name, "-", "_"), " ", "_"), "(", "_"),
            ")", "_")

\* a stored property name that carries the key marker, and the name without it
MarkedKey(prop_name) == EndsWith(prop_name, " (PK)")
PlainName(prop_name) ==
    IF MarkedKey(prop_name) THEN SubSeq(prop_name, 1, Len(prop_name) - 5)
    ELSE prop_name

\* the names of the EntityType elements of the document (in any namespace)
\* none of which has a Property child with a name
EntityTypeNodes == {m \in 1..Len(doc) : EndsWith(doc[m].tag, "EntityType")}
HasNamedProperty(m) ==
    \E c \in 1..Len(doc) :
        /\ doc[c].parent = m
        /\ EndsWith(doc[c].tag, "Property")
        /\ ~EndsWith(doc[c].tag, "NavigationProperty")
        /\ Truthy(doc[c], "Name")
PropertylessNames ==
    {doc[m].attrs["Name"] : m \in {e \in EntityTypeNodes : Truthy(doc[e], "Name")}}
    \ {doc[m].attrs["Name"] :
          m \in {e \in EntityTypeNodes :
                    Truthy(doc[e], "Name") /\ HasNamedProperty(e)}}

Endpoints == {relationships[k][1] : k \in 1..Len(relationships)}
             \cup {relationships[k][2] : k \in 1..Len(relationships)}

\* C1: at every point of parse_odata_file, and so in what it returns, both
\* endpoints of every relationship of the list are keys of the entities
\* dict, whichever pass appended the relationship.
C1_EndpointsAreEntities == Endpoints \subseteq DictKeys(entities)

\* C1 witness: a returned model with a relationship of the association pass
\* (Emp, Dept, *, 1), one of the role-matched navigation pass
\* (Dept, Emp, 1, *) and two of the name split (Emp, Dept, 1, *),
\* (Dept, Dept, 1, *).
C1_Witness ==
    /\ pc = "model"
    /\ relationships = << <<"Emp", "Dept", "*", "1">>,
                          <<"Emp", "Dept", "1", "*">>,
                          <<"Dept", "Emp", "1", "*">>,
                          <<"Dept", "Dept", "1", "*">> >>

\* C2: no entity of the entities dict and no entry of metadata['entities']
\* has an empty property list; a name borne only by entity types without a
\* named property is no entity of either model and no endpoint of a
\* relationship.
C2_NoEmptyEntity ==
    /\ \A i \in 1..Len(entities) : entities[i][2] # <<>>
    /\ \A i \in 1..Len(metadata.entities) :
           metadata.entities[i].Properties # <<>>
    /\ \A name \in PropertylessNames :
           /\ name \notin DictKeys(entities)
           /\ name \notin Endpoints
           /\ \A i \in 1..Len(metadata.entities) :
                  metadata.entities[i].Name # name
           /\ \A k \in 1..Len(metadata.relationships) :
                  /\ metadata.relationships[k].FromEntity # name
                  /\ metadata.relationships[k].ToEntity # name

\* C2 witness: a returned model of a document with the entity type Ghost,
\* which has no named property, the entity Emp, and the association
\* Emp_Ghost whose two ends were found and name Emp and Ghost.
C2_Witness ==
    /\ pc = "model"
    /\ "Ghost" \in PropertylessNames
    /\ "Emp" \in DictKeys(entities)
    /\ \E k \in 1..Len(all_assoc_elements) :
           /\ Get(doc[all_assoc_elements[k]], "Name", "") = "Emp_Ghost"
           /\ Len(FindElements(doc, all_assoc_elements[k], "End")) = 2

\* C3 (as claimed): no two elements of the relationship list are equal.
C3_RelationshipsDeduplicated ==
    \A i, j \in 1..Len(relationships) :
        i # j => relationships[i] # relationships[j]

\* C4 (as claimed): every key property of every entity is rendered as the
\* line "<mapped type> <sanitized name> PK", the sanitized name being the
\* property's own name with the four characters replaced and nothing else.
C4_KeyPropertyLine ==
    pc = "rendered" =>
        \A i \in 1..Len(entities) : \A j \in 1..Len(entities[i][2]) :
            LET prop == entities[i][2][j]
            IN  MarkedKey(prop[1]) =>
                    ("        " \o SafePropType(prop[2]) \o " "
                     \o Sanitized(PlainName(prop[1])) \o " PK") \in Range(Lines)

\* the claimed symbol table over the normalized multiplicities
Bucket(mult) ==
    IF mult = "1" THEN "one"
    ELSE IF mult \in {"*", "0..*"} THEN "many" ELSE "other"
SymbolTable(from_bucket, to_bucket) ==
    CASE from_bucket = "one" /\ to_bucket = "one" -> "||--||"
      [] from_bucket = "one" /\ to_bucket = "many" -> "||--|{"
      [] from_bucket = "many" /\ to_bucket = "one" -> "}|--||"
      [] from_bucket = "many" /\ to_bucket = "many" -> "}|--|{"

\* the line of the k-th relationship and the symbol on it
RelationshipLineAt(k) == Lines[Len(Lines) - Len(relationships) + k]
SymbolOn(line) == Split(line, " ")[6]

\* C5: the symbol on the line of a relationship whose multiplicities are
\* among "1", "*", "0..*" is the one the table gives for the normalized
\* pair, "*" and "0..*" both being many.
C5_SymbolByBucket ==
    pc = "rendered" =>
        \A k \in 1..Len(relationships) :
            LET from_bucket == Bucket(relationships[k][3])
                to_bucket == Bucket(relationships[k][4])
            IN  from_bucket # "other" /\ to_bucket # "other" =>
                    SymbolOn(RelationshipLineAt(k))
                        = SymbolTable(from_bucket, to_bucket)

\* C5 witness: the relationship ("1", "0..*") rendered with the symbol of
\* ("1", "*").
C5_Witness ==
    /\ pc = "rendered"
    /\ \E k \in 1..Len(relationships) :
           /\ relationships[k][3] = "1" /\ relationships[k][4] = "0..*"
           /\ SymbolOn(RelationshipLineAt(k)) = "||--|{"

\* C6 (as claimed): the header line of every entity block bears the entity
\* name with "-", space, "(" and ")" each replaced by "_", and so does every
\* relationship line that references the entity.
C6_EntityNameSanitized ==
    pc = "rendered" =>
        /\ \A i \in 1..Len(entities) :
               ("    " \o Sanitized(entities[i][1]) \o " {") \in Range(Lines)
        /\ \A k \in 1..Len(relationships) :
               /\ Split(RelationshipLineAt(k), " ")[5]
                      = Sanitized(relationships[k][1])
               /\ Split(RelationshipLineAt(k), " ")[7]
                      = Sanitized(relationships[k][2])

\* C7 (as claimed): the block of an entity has exactly one property line for
\* each (sanitized base name, mapped type) pair among its properties.
C7_OneLinePerSanitizedPair ==
    pc = "rendered" /\ Len(entities) = 1 =>
        Len(Lines) - 3 - Len(relationships)
            = Cardinality({<<Sanitized(PlainName(prop[1])),
                             SafePropType(prop[2])>> :
                              prop \in Range(entities[1][2])})

\* the properties that repeat no earlier (name, type) of the list
RECURSIVE FirstOccurrences(_, _)
FirstOccurrences(properties, j) ==
    IF j > Len(properties) THEN <<>>
    ELSE (IF \E i \in 1..(j - 1) :
                 /\ properties[i][1] = properties[j][1]
                 /\ properties[i][2] = properties[j][2]
          THEN <<>> ELSE <<properties[j]>>)
         \o FirstOccurrences(properties, j + 1)

DeduplicatedModel ==
    [i \in 1..Len(entities) |->
        <<entities[i][1], FirstOccurrences(entities[i][2], 1)>>]

\* C8: the text rendered from a model is the text rendered from the model
\* with all but the first occurrence of each repeated (name, type) property
\* removed.
C8_DedupIdempotent ==
    pc = "rendered" =>
        diagram = generate_mermaid_diagram(DeduplicatedModel, relationships)

\* C8 witness: a rendered model in which an entity repeats a (name, type)
\* property.
C8_Witness == pc = "rendered" /\ DeduplicatedModel # entities

\* the claimed type table, by leaf name
DiagramTypes == {"String", "Int", "Int64", "Boolean", "DateTime", "Time",
                 "Decimal", "Float", "Binary"}
LeafTable ==
    [String |-> "String", Int32 |-> "Int", Int64 |-> "Int64",
     Boolean |-> "Boolean", DateTime |-> "DateTime",
     DateTimeOffset |-> "DateTime", Time |-> "Time", Decimal |-> "Decimal",
     Double |-> "Float", Single |-> "Float", Guid |-> "String",
     Binary |-> "Binary"]

\* the diagram types the claim allows for a type name: the table's for a
\* leaf or qualified table name, else that of a table leaf the name ends
\* with, else String
AllowedTypes(prop_type) ==
    IF prop_type \in DOMAIN LeafTable THEN {LeafTable[prop_type]}
    ELSE IF \E leaf \in DOMAIN LeafTable : prop_type = "Edm." \o leaf
    THEN {LeafTable[leaf] : leaf \in {l \in DOMAIN LeafTable :
                                         prop_type = "Edm." \o l}}
    ELSE IF \E leaf \in DOMAIN LeafTable : EndsWith(prop_type, leaf)
    THEN {LeafTable[leaf] : leaf \in {l \in DOMAIN LeafTable :
                                         EndsWith(prop_type, l)}}
    ELSE {"String"}

\* the type on a property line
TypeOn(line) == Split(line, " ")[9]

\* C9: the type on every property line is one of the nine diagram types; the
\* type rendered for a property is the table's for a leaf or qualified table
\* name, that of a matching table leaf for a name that ends with one, and
\* String for any other name.
C9_TypeMapping ==
    pc = "rendered" =>
        /\ \A n \in 1..Len(Lines) :
               MatchAt(Lines[n], "        ", 1) =>
                   TypeOn(Lines[n]) \in DiagramTypes
        /\ Len(entities) = 1 /\ Len(entities[1][2]) = 1 =>
               TypeOn(Lines[3]) \in AllowedTypes(entities[1][2][1][2])

\* C9 witness: the property of type Edm.Stream rendered as String.
C9_Witness ==
    /\ pc = "rendered"
    /\ Len(entities) = 1 /\ Len(entities[1][2]) = 1
    /\ entities[1][2][1][2] = "Edm.Stream"
    /\ TypeOn(Lines[3]) = "String"

\* what a line of the text is, read off the line alone
LineKind(line) ==
    IF line = "erDiagram" THEN "header"
    ELSE IF line = "    }" THEN "close"
    ELSE IF MatchAt(line, "        ", 1) THEN "property"
    ELSE IF EndsWith(line, " : relates") THEN "relationship"
    ELSE IF MatchAt(line, "    ", 1) /\ EndsWith(line, " {") THEN "open"
    ELSE "other"

LinesOfKind(kind) == SelectSeq(Lines, LAMBDA line : LineKind(line) = kind)

\* the properties whose dedup key no earlier property of the list has
RECURSIVE Surviving(_, _)
Surviving(properties, j) ==
    IF j > Len(properties) THEN <<>>
    ELSE (IF \E i \in 1..(j - 1) :
                 PropKey(properties[i][1], properties[i][2])
                     = PropKey(properties[j][1], properties[j][2])
          THEN <<>> ELSE <<properties[j]>>)
         \o Surviving(properties, j + 1)

RECURSIVE Repeat(_, _)
Repeat(x, n) == IF n = 0 THEN <<>> ELSE <<x>> \o Repeat(x, n - 1)

\* the kinds of the lines of the blocks of the entities from i on
RECURSIVE BlockKinds(_)
BlockKinds(i) ==
    IF i > Len(entities) THEN <<>>
    ELSE <<"open">>
         \o Repeat("property", Len(Surviving(entities[i][2], 1)))
         \o <<"close">> \o BlockKinds(i + 1)

RECURSIVE SurvivingFrom(_)
SurvivingFrom(i) ==
    IF i > Len(entities) THEN <<>>
    ELSE Surviving(entities[i][2], 1) \o SurvivingFrom(i + 1)

\* C10: the text is the header line erDiagram, then for each entity in input
\* order an open line with its name, one line per surviving property in
\* property order and a close line, then one line per relationship in input
\* order.
C10_Layout ==
    pc = "rendered" =>
        /\ [n \in 1..Len(Lines) |-> LineKind(Lines[n])]
               = <<"header">> \o BlockKinds(1)
                 \o Repeat("relationship", Len(relationships))
        /\ LinesOfKind("open")
               = [i \in 1..Len(entities) |->
                     "    " \o SafeEntityName(entities[i][1]) \o " {"]
        /\ LinesOfKind("property")
               = [j \in 1..Len(SurvivingFrom(1)) |->
                     PropertyLine(SurvivingFrom(1)[j][1],
                                  SurvivingFrom(1)[j][2])]
        /\ LinesOfKind("relationship")
               = [k \in 1..Len(relationships) |->
                     RelationshipLine(relationships[k])]

\* C10 witness: a rendered model of two entities, one of which loses a
\* repeated property, and two relationships.
C10_Witness ==
    /\ pc = "rendered"
    /\ Len(entities) = 2
    /\ Len(relationships) = 2
    /\ \E i \in 1..Len(entities) :
           Len(Surviving(entities[i][2], 1)) < Len(entities[i][2])

LocalName(tag) == SplitLast(tag, "}")

ElementsNamed(local) ==
    {m \in 1..Len(doc) : LocalName(doc[m].tag) = local}

\* C12 (as claimed): the parse ends with the error 'No Schema element found'
\* exactly when no element of the document, the root included, has the local
\* name Schema; a document with a Schema and no entity type and no
\* association gives the empty model.
C12_SchemaNotFoundIff ==
    /\ pc = "error" => ElementsNamed("Schema") = {}
    /\ pc # "start" /\ ElementsNamed("Schema") = {} => pc = "error"
    /\ /\ pc = "model"
       /\ ElementsNamed("EntityType") = {}
       /\ ElementsNamed("Association") = {}
       => /\ entities = <<>> /\ relationships = <<>>
          /\ metadata.entities = <<>> /\ metadata.relationships = <<>>

\* the properties read from the last located entity type element that bears
\* the name and has a named property
LastExtraction(name) ==
    LET hits == {k \in 1..Len(all_entity_type_elements) :
                    /\ Get(doc[all_entity_type_elements[k]], "Name", "") = name
                    /\ HasNamedProperty(all_entity_type_elements[k])}
        last == CHOOSE k \in hits : \A h \in hits : h <= k
    IN  PropertyTuples(doc,
            FindElements(doc, all_entity_type_elements[last], "Property"), 1,
            KeyProps(doc, all_entity_type_elements[last]))

\* the part of C13 about parse_odata_file: the names are unique and the
\* entity holds the properties of the last extraction
UniqueInEntities ==
    /\ \A i, j \in 1..Len(entities) : i # j => entities[i][1] # entities[j][1]
    /\ pc = "model" =>
           \A i \in 1..Len(entities) :
               entities[i][2] = LastExtraction(entities[i][1])

\* the part of C13 about parse_odata_metadata
UniqueInMetadata ==
    \A i, j \in 1..Len(metadata.entities) :
        i # j => metadata.entities[i].Name # metadata.entities[j].Name

\* C13 (as claimed): no two entities of the entities dict and no two entries
\* of metadata['entities'] have the same name, and an entity type name that
\* is extracted several times holds the properties of the last extraction.
C13_UniqueNamesLastWins == UniqueInEntities /\ UniqueInMetadata

\* C14: after the filter has run on a non-empty selection, every kept
\* relationship is a relationship of the model with both ends among the kept
\* entities, every relationship of the model with both ends among the kept
\* entities is kept, and every kept entity is an entity of the model, with
\* and without the inclusion of related entities.
C14_FilterClosed ==
    pc = "rendered" /\ entity_filter # <<>> =>
        /\ \A k \in 1..Len(filtered_relationships) :
               /\ filtered_relationships[k] \in Range(relationships)
               /\ filtered_relationships[k][1] \in DictKeys(filtered_entities)
               /\ filtered_relationships[k][2] \in DictKeys(filtered_entities)
        /\ \A k \in 1..Len(relationships) :
               /\ relationships[k][1] \in DictKeys(filtered_entities)
               /\ relationships[k][2] \in DictKeys(filtered_entities)
               => relationships[k] \in Range(filtered_relationships)
        /\ Range(filtered_entities) \subseteq Range(entities)

\* C14 witness: a filtered model to which a related entity was added, with a
\* relationship kept and a relationship dropped.
C14_Witness ==
    /\ pc = "rendered"
    /\ include_related
    /\ Len(filtered_entities) > Len(entity_filter)
    /\ filtered_relationships # <<>>
    /\ Len(filtered_relationships) < Len(relationships)

\* the located navigation properties that the navigation pass reads: those
\* with a Relationship, of the entity types whose name is an entity
NavigationReferences ==
    UNION {{<<e, n>> : n \in Range(FindElements(doc, e, "NavigationProperty"))} :
              e \in {t \in Range(all_entity_type_elements) :
                        Get(doc[t], "Name", "") \in DictKeys(entities)}}

ReadReferences ==
    {r \in NavigationReferences : Get(doc[r[2]], "Relationship", "") # ""}

\* what each resolution appends for a reference when the list is empty
RoleMatchedOf(r) ==
    Range(RoleMatched(doc, doc[r[2]], doc[r[1]].attrs["Name"], entities,
                      assoc_map, <<>>))
FallbackOf(r) ==
    Range(NameSplit(doc[r[2]], doc[r[1]].attrs["Name"], entities, <<>>))

\* the relationships by the way they are derived
AssociationTuples ==
    UNION {Range(AssociationStep(doc, a, entities, <<>>)) :
              a \in Range(all_assoc_elements)}
RoleMatchedTuples == UNION {RoleMatchedOf(r) : r \in ReadReferences}
FallbackTuples == UNION {FallbackOf(r) : r \in ReadReferences}

\* C15 (as claimed): in the returned model no entry of the relationship list
\* stands both for a relationship of the name-splitting fallback and for one
\* of the association pass or of the role-matched resolution.
C15_ConfidenceNotMerged ==
    pc = "model" =>
        \A k \in 1..Len(relationships) :
            ~ /\ relationships[k] \in FallbackTuples
              /\ relationships[k] \in AssociationTuples \cup RoleMatchedTuples

\* C16 (as claimed): no collected element list holds a node twice: the
\* lists of Schema, EntityType and Association elements, and the lists of
\* End, Key, Property and NavigationProperty elements found below them.
C16_NoNodeTwice ==
    /\ Distinct(schema_elements)
    /\ Distinct(all_entity_type_elements)
    /\ Distinct(all_assoc_elements)
    /\ \A a \in Range(all_assoc_elements) :
           Distinct(FindElements(doc, a, "End"))
    /\ \A e \in Range(all_entity_type_elements) :
           /\ Distinct(FindElements(doc, e, "Key"))
           /\ Distinct(FindElements(doc, e, "Property"))
           /\ Distinct(FindElements(doc, e, "NavigationProperty"))

\* the elements below the root with the local name
DescendantsNamed(local) == {m \in ElementsNamed(local) : doc[m].parent # 0}

\* the part of C17 about Schema elements
AllSchemasLocated ==
    pc \notin {"start", "parse_file", "error"} =>
        DescendantsNamed("Schema") \subseteq Range(schema_elements)

\* C17 (as claimed): once the lookups have run, every element below the root
\* whose local name is Schema, EntityType or Association is in the list of
\* located elements, whatever its namespace.
C17_AllLocated ==
    /\ AllSchemasLocated
    /\ pc \notin {"start", "parse_file", "error", "collect"} =>
           /\ DescendantsNamed("EntityType")
                  \subseteq Range(all_entity_type_elements)
           /\ DescendantsNamed("Association")
                  \subseteq Range(all_assoc_elements)

\* the End children of an association element, in document order
EndChildren(a) ==
    SelectSeq(Indices(doc),
              LAMBDA m : doc[m].parent = a /\ LocalName(doc[m].tag) = "End")

\* the relationship the claim expects of a located association
ExpectedOfAssociation(a) ==
    LET end1 == doc[EndChildren(a)[1]]
        end2 == doc[EndChildren(a)[2]]
    IN  <<LeafType(end1), LeafType(end2), Get(end1, "Multiplicity", "1"),
          Get(end2, "Multiplicity", "1")>>

\* C18 (as claimed): in the returned model, every located association with
\* a Name and exactly two End children whose types' leaf names are entities
\* has its relationship in the list.
C18_AssociationEmitted ==
    pc = "model" =>
        \A a \in Range(all_assoc_elements) :
            /\ Truthy(doc[a], "Name")
            /\ Len(EndChildren(a)) = 2
            /\ ExpectedOfAssociation(a)[1] \in DictKeys(entities)
            /\ ExpectedOfAssociation(a)[2] \in DictKeys(entities)
            => ExpectedOfAssociation(a) \in Range(relationships)

\* the association a Relationship token resolves to: by the full token
\* first, then by its leaf; 0 when neither names a located association
ResolvedAssociation(relationship) ==
    IF relationship \in DictKeys(assoc_map)
    THEN DictGet(assoc_map, relationship)
    ELSE IF SplitLast(relationship, ".") \in DictKeys(assoc_map)
    THEN DictGet(assoc_map, SplitLast(relationship, "."))
    ELSE 0

\* the <<FromRole end, ToRole end>> pairs of the End children of a, for a
\* navigation property that gives both roles
RoleEnds(nav_prop, a) ==
    {p \in Range(EndChildren(a)) \X Range(EndChildren(a)) :
        /\ p[1] # p[2]
        /\ HasAttr(nav_prop, "FromRole") /\ HasAttr(nav_prop, "ToRole")
        /\ HasAttr(doc[p[1]], "Role") /\ HasAttr(doc[p[2]], "Role")
        /\ doc[p[1]].attrs["Role"] = nav_prop.attrs["FromRole"]
        /\ doc[p[2]].attrs["Role"] = nav_prop.attrs["ToRole"]}

\* C19 (as claimed): in the returned model, for every navigation property
\* of an entity E whose Relationship resolves to an association with two
\* End children, one in the FromRole and the other in the ToRole, the
\* relationship (E, leaf type of the ToRole end, multiplicity of the
\* FromRole end, multiplicity of the ToRole end) is in the list when the
\* leaf type is an entity.
C19_RoleMatchedEmitted ==
    pc = "model" =>
        \A r \in ReadReferences :
            LET nav_prop == doc[r[2]]
                a == ResolvedAssociation(nav_prop.attrs["Relationship"])
            IN  a # 0 /\ Len(EndChildren(a)) = 2 =>
                    \A p \in RoleEnds(nav_prop, a) :
                        LeafType(doc[p[2]]) \in DictKeys(entities) =>
                            <<doc[r[1]].attrs["Name"], LeafType(doc[p[2]]),
                              Get(doc[p[1]], "Multiplicity", "1"),
                              Get(doc[p[2]], "Multiplicity", "1")>>
                                \in Range(relationships)

\* the navigation properties of the entity type the navigation pass is at
CurrentNavProps ==
    FindElements(doc, all_entity_type_elements[cursor], "NavigationProperty")

\* the relationship list when the pass reaches the j-th of them
ListBefore(j) ==
    NavigationLoop(doc, SubSeq(CurrentNavProps, 1, j - 1), 1,
                   doc[all_entity_type_elements[cursor]].attrs["Name"],
                   entities, assoc_map, relationships)

\* the list after the role-matched resolution of the j-th, and after its
\* name split
ListAfterRoles(j) ==
    RoleMatched(doc, doc[CurrentNavProps[j]],
                doc[all_entity_type_elements[cursor]].attrs["Name"],
                entities, assoc_map, ListBefore(j))
ListAfterSplit(j) ==
    NameSplit(doc[CurrentNavProps[j]],
              doc[all_entity_type_elements[cursor]].attrs["Name"],
              entities, ListAfterRoles(j))

\* C20 (as claimed): when the navigation pass handles an entity type of the
\* model, a navigation reference for which the role-matched resolution
\* appends a relationship does not also append a relationship of the name
\* split.
C20_FallbackOnlyOnFailure ==
    /\ pc = "navigation"
    /\ Truthy(doc[all_entity_type_elements[cursor]], "Name")
    /\ doc[all_entity_type_elements[cursor]].attrs["Name"]
           \in DictKeys(entities)
    => \A j \in 1..Len(CurrentNavProps) :
           /\ Get(doc[CurrentNavProps[j]], "Relationship", "") # ""
           /\ ListAfterRoles(j) # ListBefore(j)
           => ListAfterSplit(j) = ListAfterRoles(j)

\* what the claim expects of the name split for a relationship token
ExpectedOfSplit(owner, relationship) ==
    LET parts == Split(SplitLast(relationship, "."), "_")
    IN  IF Len(parts) # 2 THEN {}
        ELSE IF parts[2] \in DictKeys(entities)
        THEN {<<owner, parts[2], "1", "*">>}
        ELSE IF ("Per" \o parts[2]) \in DictKeys(entities)
        THEN {<<owner, "Per" \o parts[2], "1", "*">>}
        ELSE {}

MetaEntityTypes == CollectFrom(doc, FindSchemas(doc), 1, "EntityType")
MetaKept ==
    SelectSeq(MetaEntityTypes,
              LAMBDA e : Truthy(doc[e], "Name") /\ HasNamedProperty(e))

\* the names the PropertyRefs of the Key of entity type e give
KeyRefNames(e) ==
    {doc[m].attrs["Name"] :
        m \in {n \in 1..Len(doc) :
                 /\ LocalName(doc[n].tag) = "PropertyRef"
                 /\ Truthy(doc[n], "Name")
                 /\ doc[n].parent # 0
                 /\ LocalName(doc[doc[n].parent].tag) = "Key"
                 /\ doc[doc[n].parent].parent = e}}

\* C22 (as claimed): every row of metadata['keys'] names an entity of
\* metadata['entities'] and one of its properties, and the IsKey flag of a
\* property is true exactly when a PropertyRef of the Key of its entity type
\* gives its name.
C22_KeysAreProperties ==
    pc \notin {"start", "error"} =>
        /\ \A k \in 1..Len(metadata.keys) :
               \E i \in 1..Len(metadata.entities) :
                   /\ metadata.entities[i].Name = metadata.keys[k].Entity
                   /\ \E p \in 1..Len(metadata.entities[i].Properties) :
                          metadata.entities[i].Properties[p].Name =
                              metadata.keys[k].KeyProperty
        /\ Len(metadata.entities) = Len(MetaKept)
        /\ \A i \in 1..Len(metadata.entities) :
               \A p \in 1..Len(metadata.entities[i].Properties) :
                   metadata.entities[i].Properties[p].IsKey <=>
                       metadata.entities[i].Properties[p].Name
                           \in KeyRefNames(MetaKept[i])

\* parse_odata_file as a whole: the loops of the actions run to their end
RECURSIVE EntityLoop(_, _, _, _)
EntityLoop(d, entity_types, i, ents) ==
    IF i > Len(entity_types) THEN ents
    ELSE EntityLoop(d, entity_types, i + 1,
                    ExtractEntity(d, entity_types[i], ents))

RECURSIVE AssociationLoop(_, _, _, _, _)
AssociationLoop(d, assocs, i, ents, rels) ==
    IF i > Len(assocs) THEN rels
    ELSE AssociationLoop(d, assocs, i + 1, ents,
                         AssociationStep(d, assocs[i], ents, rels))

RECURSIVE NavigationPassLoop(_, _, _, _, _, _)
NavigationPassLoop(d, entity_types, i, ents, map, rels) ==
    IF i > Len(entity_types) THEN rels
    ELSE NavigationPassLoop(d, entity_types, i + 1, ents, map,
             NavigationStep(d, entity_types[i], ents, map, rels))

\* <<entities, relationships>> for a document with a Schema element
parse_odata_file(d) ==
    LET schemas == FindSchemas(d)
        entity_types == CollectFrom(d, schemas, 1, "EntityType")
        assocs == CollectFrom(d, schemas, 1, "Association")
        ents == EntityLoop(d, entity_types, 1, <<>>)
        map == BuildAssocMapFrom(d, assocs, 1, <<>>)
    IN  <<ents,
          NavigationPassLoop(d, entity_types, 1, ents, map,
              AssociationLoop(d, assocs, 1, ents, <<>>))>>

\* the per-node anomalies: an EntityType, Property or Association without a
\* Name, an End without a Type, a NavigationProperty without a Relationship
Malformed(d, n) ==
    \/ /\ LocalName(d[n].tag) \in {"EntityType", "Property", "Association"}
       /\ ~Truthy(d[n], "Name")
    \/ LocalName(d[n].tag) = "End" /\ ~Truthy(d[n], "Type")
    \/ /\ LocalName(d[n].tag) = "NavigationProperty"
       /\ ~Truthy(d[n], "Relationship")

\* the document without its malformed nodes and what is below them: such a
\* node gets a tag that no lookup matches
WithoutMalformed(d) ==
    [n \in 1..Len(d) |->
        IF \E m \in 1..Len(d) :
               Malformed(d, m) /\ (m = n \/ IsDescendant(d, n, m))
        THEN [d[n] EXCEPT !.tag = "Removed"]
        ELSE d[n]]

\* C23 (as claimed): the returned model is the model of the document
\* without its malformed nodes, and an error is raised only when no Schema
\* element is found.
C23_AnomaliesOmitted ==
    /\ pc = "model" =>
           <<entities, relationships>> =
               parse_odata_file(WithoutMalformed(doc))
    /\ pc = "error" => FindSchemas(doc) = <<>>

\* the named Property elements of entity type e, in lookup order
NamedProperties(e) ==
    SelectSeq(FindElements(doc, e, "Property"),
              LAMBDA m : Truthy(doc[m], "Name"))

\* the attribute a of a node, or the default when the node has none
AttrOr(node, a, default) ==
    IF a \in DOMAIN node.attrs THEN node.attrs[a] ELSE default

\* the entity-type element whose extraction the entities dict holds
LastElement(name) ==
    LET hits == {k \in 1..Len(all_entity_type_elements) :
                    /\ Get(doc[all_entity_type_elements[k]], "Name", "") = name
                    /\ HasNamedProperty(all_entity_type_elements[k])}
    IN  all_entity_type_elements[CHOOSE k \in hits : \A h \in hits : h <= k]

MetadataNames ==
    {metadata.entities[i].Name : i \in 1..Len(metadata.entities)}

\* C25: when parse_odata_file has returned, the keys of its entities dict
\* are the names of metadata['entities'] of parse_odata_metadata.
C25_ExtractorsAgree ==
    pc = "model" => DictKeys(entities) = MetadataNames

\* a returned model of a document with a kept entity type and a named
\* entity type without named property
C25_Witness ==
    /\ pc = "model"
    /\ DictKeys(entities) # {}
    /\ \E e \in Range(all_entity_type_elements) :
           Truthy(doc[e], "Name") /\ ~HasNamedProperty(e)

\* the entities that share a relationship with a selected name
Neighbours ==
    {e \in DictKeys(entities) :
        \E k \in 1..Len(relationships) :
            \/ relationships[k][1] \in Range(entity_filter)
               /\ relationships[k][2] = e
            \/ relationships[k][2] \in Range(entity_filter)
               /\ relationships[k][1] = e}

\* C26: with include_related on, the filtered entities are the selected
\* entities of the model and the entities one relationship away from a
\* selected one, each with its properties, and a relationship between two
\* added neighbours is kept.
C26_OneHop ==
    pc = "rendered" /\ entity_filter # <<>> /\ include_related =>
        /\ DictKeys(filtered_entities) =
               (Range(entity_filter) \cap DictKeys(entities)) \cup Neighbours
        /\ \A n \in DictKeys(filtered_entities) :
               DictGet(filtered_entities, n) = DictGet(entities, n)
        /\ \A k \in 1..Len(relationships) :
               /\ relationships[k][1] \in Neighbours \ Range(entity_filter)
               /\ relationships[k][2] \in Neighbours \ Range(entity_filter)
               => relationships[k] \in Range(filtered_relationships)

\* one selected entity, its two neighbours added, and the relationship
\* between the two neighbours kept
C26_Witness ==
    /\ pc = "rendered" /\ include_related
    /\ entity_filter = <<"Emp">>
    /\ DictKeys(filtered_entities) = {"Emp", "Dept", "Job"}
    /\ <<"Dept", "Job", "*", "*">> \in Range(filtered_relationships)

\* an entity two relationships away from the selected one is left out
C26_TwoHops ==
    /\ pc = "rendered" /\ include_related
    /\ entity_filter = <<"Emp">>
    /\ relationships =
           << <<"Emp", "Dept", "1", "*">>, <<"Dept", "Job", "1", "*">> >>
    /\ DictKeys(filtered_entities) = {"Emp", "Dept"}

\* C27: the symbol on every relationship line is one of four, and it is the
\* many-to-many symbol when a multiplicity is none of "1", "*", "0..*" and
\* when both multiplicities are many.
C27_FourSymbols ==
    pc = "rendered" =>
        \A k \in 1..Len(relationships) :
            LET symbol == SymbolOn(RelationshipLineAt(k))
                from_bucket == Bucket(relationships[k][3])
                to_bucket == Bucket(relationships[k][4])
            IN  /\ symbol \in {"||--||", "||--|{", "}|--||", "}|--|{"}
                /\ \/ from_bucket = "other"
                   \/ to_bucket = "other"
                   \/ from_bucket = "many" /\ to_bucket = "many"
                   => symbol = "}|--|{"

\* the relationship ("0..1", "1") rendered with the many-to-many symbol
C27_Witness ==
    /\ pc = "rendered"
    /\ \E k \in 1..Len(relationships) :
           /\ relationships[k][3] = "0..1" /\ relationships[k][4] = "1"
           /\ SymbolOn(RelationshipLineAt(k)) = "}|--|{"

\* the lines that open the entity blocks, in diagram order
OpenLines == LinesOfKind("open")

\* C28 (as claimed): the lines that open the blocks of two entities differ,
\* and so do the names that relationship lines give to two different
\* entities.
C28_DistinctDiagramNames ==
    pc = "rendered" =>
        /\ Len(OpenLines) = Len(entities)
        /\ \A i, j \in 1..Len(entities) :
               i # j => OpenLines[i] # OpenLines[j]
        /\ \A k, l \in 1..Len(relationships) :
               \A p, q \in 1..2 :
                   relationships[k][p] # relationships[l][q] =>
                       Split(RelationshipLineAt(k), " ")[3 + 2 * p]
                           # Split(RelationshipLineAt(l), " ")[3 + 2 * q]

\* is there an entry of metadata['entities'] named n whose Tags hold t?
TaggedEntity(n, t) ==
    \E i \in 1..Len(metadata.entities) :
        /\ metadata.entities[i].Name = n
        /\ t \in Range(metadata.entities[i].Tags)

\* C29 (as claimed): a name is under a tag of metadata['tags'] exactly when
\* metadata['entities'] has an entity of that name whose Tags hold the tag,
\* and no name is twice under one tag.
C29_TagIndexConsistent ==
    pc \notin {"start", "error"} =>
        /\ \A k \in 1..Len(metadata.tags) :
               /\ Distinct(metadata.tags[k][2])
               /\ \A n \in Range(metadata.tags[k][2]) :
                      TaggedEntity(n, metadata.tags[k][1])
        /\ \A i \in 1..Len(metadata.entities) :
               \A t \in Range(metadata.entities[i].Tags) :
                   /\ t \in DictKeys(metadata.tags)
                   /\ metadata.entities[i].Name
                          \in Range(DictGet(metadata.tags, t))

\* what C30 says of one step of the program
C30_Step ==
    /\ DictKeys(entities) \subseteq DictKeys(entities')
    /\ pc # "entity_types" => entities' = entities
    /\ pc = "entity_types" =>
           LET e == all_entity_type_elements[cursor]
               name == Get(doc[e], "Name", "")
           IN  /\ \A n \in DictKeys(entities) \ {name} :
                      DictGet(entities', n) = DictGet(entities, n)
               /\ name \in DictKeys(entities) =>
                      DictGet(entities', name) =
                          IF HasNamedProperty(e)
                          THEN PropertyTuples(doc,
                                   FindElements(doc, e, "Property"), 1,
                                   KeyProps(doc, e))
                          ELSE DictGet(entities, name)
               /\ relationships = <<>> /\ relationships' = <<>>
    /\ relationships' # relationships =>
           pc \in {"associations", "navigation"}

\* C30: no step of parse_odata_file removes an entity; an entity-type node
\* whose name is stored replaces the properties when it has a named
\* property and leaves them when it has none; and the relationship list is
\* empty until the loop over the entity-type nodes has ended, after which
\* the entities no longer change.
C30_EntitiesOnlyGrow == [][C30_Step]_vars

\* a returned model of a document in which Emp is followed by an Emp
\* without property: Emp has kept its properties and is an endpoint
C30_Witness ==
    /\ pc = "model"
    /\ \E i, j \in 1..Len(all_entity_type_elements) :
           /\ i < j
           /\ Get(doc[all_entity_type_elements[i]], "Name", "") = "Emp"
           /\ Get(doc[all_entity_type_elements[j]], "Name", "") = "Emp"
           /\ HasNamedProperty(all_entity_type_elements[i])
           /\ ~HasNamedProperty(all_entity_type_elements[j])
    /\ "Emp" \in DictKeys(entities)
    /\ Len(DictGet(entities, "Emp")) = 2
    /\ <<"Emp", "Dept", "*", "1">> \in Range(relationships)

====
